---- MODULE Spec2Model ----
(***************************************************************************)
(* Essay writer: the revision state machine of core/graph.py (planner ->   *)
(* research_plan -> generate -> [END | reflect -> research_critique ->     *)
(* generate ...]), its two entry points run_essay (batched) and            *)
(* run_essay_stream (streamed), the research adapter of core/research.py   *)
(* and the session script of app.py (submit, live consumer loop, run       *)
(* history, load, clear).                                                  *)
(*                                                                         *)
(* Texts are sequences of one-character strings, so that str.strip() and   *)
(* truthiness are computed and not assumed.  Python's None is NoneText     *)
(* where a text is expected and a record [none |-> TRUE] where a record is.*)
(***************************************************************************)
EXTENDS Integers, Sequences, FiniteSets, TLC

VARIABLES
    run,          \* [Slots -> locals of one run_essay / run_essay_stream call]
    checkpoints,  \* MemorySaver of each compiled graph: <<graph key, thread id>> -> AgentState
    graph_cache,  \* st.cache_resource of get_compiled_graph: set of <<model, temperature>>
    search_cache, \* st.cache_data of tavily_search_cached: <<query, max_results>> -> response
    secrets,      \* st.secrets: the set of keys that are configured
    session,      \* st.session_state of the one modelled browser session
    uuid_ctr,     \* number of uuid4 values drawn so far
    search_call   \* the last direct call of run_tavily_search and what it gave

vars ==
    <<run, checkpoints, graph_cache, search_cache, secrets, session, uuid_ctr,
      search_call>>

----------------------------------------------------------------------------
\* Bounds of the model

\* largest max_revisions a run is started with
MaxRev == 3
\* runs started in one behaviour of the engine specifications
MaxRuns == 2
\* runs started in one behaviour of the session specification
MaxSessionRuns == 17

\* Program constants
HistoryCap == 15
LiveNotesCap == 30
LiveVersionsCap == 5
MaxQueries == 3
MinResults == 1
MaxResultsLimit == 10

----------------------------------------------------------------------------
\* Texts

\* characters str.strip() removes
Whitespace == {" ", "\n", "\r", "\t"}

RECURSIVE LStrip(_)
LStrip(t) ==
    IF t # <<>> /\ Head(t) \in Whitespace THEN LStrip(Tail(t)) ELSE t

RECURSIVE RStrip(_)
RStrip(t) ==
    IF t # <<>> /\ t[Len(t)] \in Whitespace
    THEN RStrip(SubSeq(t, 1, Len(t) - 1))
    ELSE t

\* str.strip()
Strip(t) == RStrip(LStrip(t))

\* bool(s.strip()) is False
IsBlank(t) == Strip(t) = <<>>

\* bool(s)
Truthy(t) == t # <<>>

NoneText == <<"None">>
NoneRec == [none |-> TRUE]

T_EMPTY == <<>>
T_WS == <<" ">>
T_A == <<"a">>
T_B == <<"b">>
T_A_PAD == <<"a", " ">>

Has(u, k) == k \in DOMAIN u

\* dict.get(k, default)
Get(u, k, default) == IF k \in DOMAIN u THEN u[k] ELSE default

\* d1 | d2 : keys of d2 overwrite
Merge(d1, d2) ==
    [k \in DOMAIN d1 \cup DOMAIN d2 |-> IF k \in DOMAIN d2 THEN d2[k] ELSE d1[k]]

Put(f, k, v) == [x \in DOMAIN f \cup {k} |-> IF x = k THEN v ELSE f[x]]

RECURSIVE Concat(_)
Concat(ss) == IF ss = <<>> THEN <<>> ELSE Head(ss) \o Concat(Tail(ss))

----------------------------------------------------------------------------
\* core/research.py

\* (s or "")
OrEmpty(t) == IF t = NoneText THEN <<>> ELSE t

\* one result block of _format_tavily_response_to_notes
ResultChunk(i, r) ==
    LET title == Strip(OrEmpty(r.title))
        url == Strip(OrEmpty(r.url))
        content == Strip(OrEmpty(r.content))
        chunk0 == <<"**Result ", ToString(i), ": ">>
                    \o (IF Truthy(title) THEN title ELSE <<"Untitled">>)
                    \o <<"**", "\n">>
        chunk1 == IF Truthy(url) THEN chunk0 \o <<"- URL: ">> \o url \o <<"\n">> ELSE chunk0
        chunk2 == IF Truthy(content)
                  THEN chunk1 \o <<"- Notes: ">> \o content \o <<"\n">>
                  ELSE chunk1
    IN  Strip(chunk2)

\* an element of resp["results"] that is no dict: r.get raises AttributeError
JunkItem == [junk |-> TRUE]

\* _format_tavily_response_to_notes raises on a result that is no dict
FormatRaises(resp) ==
    \E i \in 1..Len(resp.results) : Has(resp.results[i], "junk")

\* _format_tavily_response_to_notes appending the summary answer after the results
FormatTavilyResponseToNotes_AnswerLast(resp) ==
    LET answer == resp.answer
        head == IF answer # NoneText /\ ~IsBlank(answer)
                THEN << <<"**Summary answer:** ">> \o Strip(answer) >>
                ELSE <<>>
        results == resp.results
    IN  [i \in 1..Len(results) |-> ResultChunk(i, results[i])] \o head

FormatTavilyResponseToNotes(resp) ==
    LET answer == resp.answer
        head == IF answer # NoneText /\ ~IsBlank(answer)
                THEN << <<"**Summary answer:** ">> \o Strip(answer) >>
                ELSE <<>>
        results == resp.results
    IN  head \o [i \in 1..Len(results) |-> ResultChunk(i, results[i])]

\* tavily_search_cached with entries keyed by the query alone
TavilySearchCached_KeyQueryOnly(q, max_results, out, cache) ==
    LET key == <<q, 0>> IN
    IF key \in DOMAIN cache
    THEN [raised |-> "none", resp |-> cache[key], cache |-> cache, provider_calls |-> 0]
    ELSE IF out.kind = "missing_secret"
    THEN [raised |-> "MissingSecretError", resp |-> NoneRec, cache |-> cache,
          provider_calls |-> 0]
    ELSE IF out.kind = "provider_error"
    THEN [raised |-> "ProviderError", resp |-> NoneRec, cache |-> cache,
          provider_calls |-> 1]
    ELSE IF out.kind = "not_dict"
    THEN [raised |-> "ResearchError", resp |-> NoneRec, cache |-> cache,
          provider_calls |-> 1]
    ELSE [raised |-> "none", resp |-> out.resp, cache |-> Put(cache, key, out.resp),
          provider_calls |-> 1]

\* tavily_search_cached: a cached response is returned without a provider call;
\* out is what the provider does when it is called.  Exceptions are not cached.
TavilySearchCached(q, max_results, out, cache) ==
    LET key == <<q, max_results>> IN
    IF key \in DOMAIN cache
    THEN [raised |-> "none", resp |-> cache[key], cache |-> cache, provider_calls |-> 0]
    ELSE IF out.kind = "missing_secret"
    THEN [raised |-> "MissingSecretError", resp |-> NoneRec, cache |-> cache,
          provider_calls |-> 0]
    ELSE IF out.kind = "provider_error"
    THEN [raised |-> "ProviderError", resp |-> NoneRec, cache |-> cache,
          provider_calls |-> 1]
    ELSE IF out.kind = "not_dict"
    THEN [raised |-> "ResearchError", resp |-> NoneRec, cache |-> cache,
          provider_calls |-> 1]
    ELSE [raised |-> "none", resp |-> out.resp, cache |-> Put(cache, key, out.resp),
          provider_calls |-> 1]

\* the text of the ResearchError raised by the except clauses: str(e) of the
\* MissingSecretError, or "Tavily search failed: " and str(e) of anything else
ResearchMessage(c, out) ==
    IF c.raised = "MissingSecretError"
    THEN <<"Missing secret: TAVILY_API_KEY.">>
    ELSE <<"Tavily search failed: ">> \o
         (IF c.raised = "none" THEN <<"'str' object has no attribute 'get'">>
          ELSE IF c.raised = "ResearchError"
          THEN <<"Unexpected Tavily response type (expected dict).">>
          ELSE Get(out, "cause", <<>>))

\* run_tavily_search letting every exception of the try block through
RunTavilySearch_RawErrors(query, max_results, out, cache) ==
    LET q == Strip(OrEmpty(query)) IN
    IF ~Truthy(q)
    THEN [raised |-> "none", notes |-> <<>>, cache |-> cache, provider_calls |-> 0]
    ELSE IF max_results < MinResults \/ max_results > MaxResultsLimit
    THEN [raised |-> "ValueError", notes |-> <<>>, cache |-> cache, provider_calls |-> 0]
    ELSE LET c == TavilySearchCached(q, max_results, out, cache) IN
         IF c.raised = "none" /\ ~FormatRaises(c.resp)
         THEN [raised |-> "none", notes |-> FormatTavilyResponseToNotes(c.resp),
               cache |-> c.cache, provider_calls |-> c.provider_calls]
         ELSE [raised |-> IF c.raised = "none" THEN "AttributeError" ELSE c.raised,
               notes |-> <<>>, cache |-> c.cache,
               provider_calls |-> c.provider_calls, message |-> Get(out, "cause", <<>>)]

\* run_tavily_search with the blank test on the unstripped query
RunTavilySearch_NoStrip(query, max_results, out, cache) ==
    LET q == OrEmpty(query) IN
    IF ~Truthy(q)
    THEN [raised |-> "none", notes |-> <<>>, cache |-> cache, provider_calls |-> 0]
    ELSE IF max_results < MinResults \/ max_results > MaxResultsLimit
    THEN [raised |-> "ValueError", notes |-> <<>>, cache |-> cache, provider_calls |-> 0]
    ELSE LET c == TavilySearchCached(q, max_results, out, cache) IN
         IF c.raised = "none" /\ ~FormatRaises(c.resp)
         THEN [raised |-> "none", notes |-> FormatTavilyResponseToNotes(c.resp),
               cache |-> c.cache, provider_calls |-> c.provider_calls]
         ELSE [raised |-> "ResearchError", notes |-> <<>>, cache |-> c.cache,
               provider_calls |-> c.provider_calls, message |-> ResearchMessage(c, out)]

\* run_tavily_search with the range check in front of the blank test
RunTavilySearch_RangeFirst(query, max_results, out, cache) ==
    LET q == Strip(OrEmpty(query)) IN
    IF max_results < MinResults \/ max_results > MaxResultsLimit
    THEN [raised |-> "ValueError", notes |-> <<>>, cache |-> cache, provider_calls |-> 0]
    ELSE IF ~Truthy(q)
    THEN [raised |-> "none", notes |-> <<>>, cache |-> cache, provider_calls |-> 0]
    ELSE LET c == TavilySearchCached(q, max_results, out, cache) IN
         IF c.raised = "none" /\ ~FormatRaises(c.resp)
         THEN [raised |-> "none", notes |-> FormatTavilyResponseToNotes(c.resp),
               cache |-> c.cache, provider_calls |-> c.provider_calls]
         ELSE [raised |-> "ResearchError", notes |-> <<>>, cache |-> c.cache,
               provider_calls |-> c.provider_calls, message |-> ResearchMessage(c, out)]

\* run_tavily_search: the try block holds the cached call and the formatting,
\* and both except clauses raise ResearchError
RunTavilySearch(query, max_results, out, cache) ==
    LET q == Strip(OrEmpty(query)) IN
    IF ~Truthy(q)
    THEN [raised |-> "none", notes |-> <<>>, cache |-> cache, provider_calls |-> 0]
    ELSE IF max_results < MinResults \/ max_results > MaxResultsLimit
    THEN [raised |-> "ValueError", notes |-> <<>>, cache |-> cache, provider_calls |-> 0]
    ELSE LET c == TavilySearchCached(q, max_results, out, cache) IN
         IF c.raised = "none" /\ ~FormatRaises(c.resp)
         THEN [raised |-> "none", notes |-> FormatTavilyResponseToNotes(c.resp),
               cache |-> c.cache, provider_calls |-> c.provider_calls]
         ELSE [raised |-> "ResearchError", notes |-> <<>>, cache |-> c.cache,
               provider_calls |-> c.provider_calls, message |-> ResearchMessage(c, out)]

----------------------------------------------------------------------------
\* core/schemas.py and the graph of core/graph.py

LengthModes == {"Short", "Medium", "Long", "Custom word count"}

\* target_words = None (the widgets give 150..3000 or None)
NoWords == 0

NoThread == <<"none", 0>>
NoId == <<"none", 0>>
Uuid(n) == <<"uuid", n>>

\* EssayRunConfig(**cfg_dict): pydantic checks the field types only
ConfigValid(cfg_dict) ==
    /\ cfg_dict.task # NoneText
    /\ cfg_dict.length_mode \in LengthModes

\* cfg.model_dump(): the declared fields, without thread_id
ModelDump(cfg_dict) == [k \in DOMAIN cfg_dict \ {"thread_id"} |-> cfg_dict[k]]

InitialState(cfg_dict) ==
    [task |-> cfg_dict.task,
     max_revisions |-> cfg_dict.max_revisions,
     revision_number |-> 1,
     content |-> <<>>,
     config |-> ModelDump(cfg_dict)]

GraphKey(cfg_dict) == <<cfg_dict.model, cfg_dict.temperature>>

\* cfg_dict.get("thread_id") or str(uuid.uuid4())
ThreadIdFor(cfg_dict, ctr) ==
    IF Get(cfg_dict, "thread_id", NoThread) # NoThread
    THEN cfg_dict.thread_id
    ELSE Uuid(ctr + 1)

\* graph.stream(initial_state, config): the thread's saved channel values,
\* overwritten by the keys of the input
LoadThread(cps, key, thread_id, input) ==
    IF <<key, thread_id>> \in DOMAIN cps
    THEN Merge(cps[<<key, thread_id>>], input)
    ELSE input

PlanNode(state, content) == [plan |-> content]

\* the request of plan_node: HumanMessage(content=state["task"])
PlanRequest(state) == [node |-> "planner", human |-> state.task]

\* "\n\n".join(notes)
RECURSIVE JoinNotes(_)
JoinNotes(notes) ==
    IF notes = <<>> THEN <<>>
    ELSE IF Len(notes) = 1 THEN notes[1]
    ELSE notes[1] \o <<"\n\n">> \o JoinNotes(Tail(notes))

\* the request of generation_node: the notes joined into the system message,
\* the plan in the user prompt, and the critique section when the state's
\* critique is a non-empty string
GenerationRequest(state) ==
    LET critique == Get(state, "critique", <<>>) IN
    [node |-> "generate",
     content_text |-> JoinNotes(Get(state, "content", <<>>)),
     task |-> state.task,
     plan |-> Get(state, "plan", <<>>),
     critique_section |-> IF Truthy(critique) THEN <<critique>> ELSE <<>>]

\* the request of reflection_node: HumanMessage(content=state.get("draft", ""))
ReflectionRequest(state) == [node |-> "reflect", human |-> Get(state, "draft", <<>>)]

\* generation_node returning the counter it read
GenerationNode_NoIncrement(state, content) ==
    [draft |-> content,
     revision_number |-> Get(state, "revision_number", 1)]

GenerationNode(state, content) ==
    [draft |-> content,
     revision_number |-> Get(state, "revision_number", 1) + 1]

\* reflection_node also resetting the draft it has judged
ReflectionNode_ClearsDraft(state, content) == [critique |-> content, draft |-> <<>>]

ReflectionNode(state, content) == [critique |-> content]

ShouldContinue(state) ==
    IF Get(state, "revision_number", 1) > Get(state, "max_revisions", 2)
    THEN "END"
    ELSE "reflect"

\* the for-loop over queries.queries of the two research nodes; acc carries the
\* local content list, the cache and the call counts; a raise ends the loop
RECURSIVE SearchAll(_, _, _, _)
SearchAll(queries, max_results, outs, acc) ==
    IF queries = <<>> \/ acc.raised # "none"
    THEN acc
    ELSE CHOOSE out \in
            {SearchAll(Tail(queries), max_results, Tail(outs),
                       [raised |-> res.raised,
                        content |-> a.content \o res.notes,
                        cache |-> res.cache,
                        search |-> a.search + 1,
                        provider |-> a.provider + res.provider_calls,
                        returned |-> Append(a.returned, res.notes)]) :
                a \in {acc},
                res \in {RunTavilySearch(Head(queries), max_results, Head(outs),
                                         acc.cache)}} : TRUE

\* ResearchBody starting its list empty instead of copying the state's notes
ResearchBody_FreshList(state, human, sq, outs, cache) ==
    LET max_results == Get(state.config, "max_results", 2)
        start == [raised |-> "none", content |-> <<>>, cache |-> cache,
                  search |-> 0, provider |-> 0, returned |-> <<>>]
        made == [structured |-> 1, asked |-> <<human>>]
    IN  IF ~sq.ok
        THEN [start EXCEPT !.raised = "ProviderCallError"]
                @@ made @@ [queries |-> <<>>]
        ELSE SearchAll(sq.queries, max_results, outs, start)
                @@ made @@ [queries |-> sq.queries]

\* research_plan_node / research_critique_node after the early returns:
\* human is the HumanMessage of the structured-output request, sq its answer,
\* outs the provider's behaviour per query; returned lists the notes of each
\* run_tavily_search call of the loop
ResearchBody(state, human, sq, outs, cache) ==
    LET content == Get(state, "content", <<>>)
        max_results == Get(state.config, "max_results", 2)
        start == [raised |-> "none", content |-> content, cache |-> cache,
                  search |-> 0, provider |-> 0, returned |-> <<>>]
        made == [structured |-> 1, asked |-> <<human>>]
    IN  IF ~sq.ok
        THEN [start EXCEPT !.raised = "ProviderCallError"]
                @@ made @@ [queries |-> <<>>]
        ELSE SearchAll(sq.queries, max_results, outs, start)
                @@ made @@ [queries |-> sq.queries]

\* the early returns of the research nodes: return {"content": content}
ResearchSkip(state, cache) ==
    [raised |-> "none", content |-> Get(state, "content", <<>>), cache |-> cache,
     search |-> 0, provider |-> 0, structured |-> 0,
     asked |-> <<>>, queries |-> <<>>, returned |-> <<>>]

ResearchPlanNode(state, sq, outs, cache) ==
    IF ~Get(state.config, "use_research", TRUE)
    THEN ResearchSkip(state, cache)
    ELSE ResearchBody(state, state.task, sq, outs, cache)

\* research_critique_node without the blank-critique early return
ResearchCritiqueNode_NoBlankTest(state, sq, outs, cache) ==
    IF ~Get(state.config, "use_research", TRUE)
    THEN ResearchSkip(state, cache)
    ELSE ResearchBody(state, Get(state, "critique", <<>>), sq, outs, cache)

\* research_critique_node without the use_research early return
ResearchCritiqueNode_NoFlag(state, sq, outs, cache) ==
    IF IsBlank(Get(state, "critique", <<>>))
    THEN ResearchSkip(state, cache)
    ELSE ResearchBody(state, Get(state, "critique", <<>>), sq, outs, cache)

ResearchCritiqueNode(state, sq, outs, cache) ==
    IF ~Get(state.config, "use_research", TRUE)
    THEN ResearchSkip(state, cache)
    ELSE IF IsBlank(Get(state, "critique", <<>>))
    THEN ResearchSkip(state, cache)
    ELSE ResearchBody(state, Get(state, "critique", <<>>), sq, outs, cache)

\* NextNode with an edge from reflect straight back to generate
NextNode_ReflectToGenerate(node, state) ==
    CASE node = "planner" -> "research_plan"
      [] node = "research_plan" -> "generate"
      [] node = "generate" -> ShouldContinue(state)
      [] node = "reflect" -> "generate"
      [] node = "research_critique" -> "generate"

\* the fixed edges of _build_graph
NextNode(node, state) ==
    CASE node = "planner" -> "research_plan"
      [] node = "research_plan" -> "generate"
      [] node = "generate" -> ShouldContinue(state)
      [] node = "reflect" -> "research_critique"
      [] node = "research_critique" -> "generate"

----------------------------------------------------------------------------
\* run_essay / run_essay_stream: locals of one call

Slots == {"app", "api1", "api2"}

Nodes == {"planner", "research_plan", "generate", "reflect", "research_critique"}

NoCalls == [llm |-> 0, structured |-> 0, search |-> 0, provider |-> 0]

\* no direct call of run_tavily_search has been made
NoSearchCall ==
    [n |-> 0, query |-> NoneText, max_results |-> 0, out |-> NoneRec,
     cached |-> FALSE, raised |-> "none", notes |-> <<>>, provider_calls |-> 0]

IdleRun ==
    [pc |-> "idle",
     mode |-> "none",
     cfg_dict |-> NoneRec,
     thread_id |-> NoThread,
     resumed |-> FALSE,
     state |-> NoneRec,
     snapshots |-> <<>>,
     plan |-> <<>>,
     drafts |-> <<>>,
     critiques |-> <<>>,
     content_notes |-> <<>>,
     last_draft |-> NoneText,
     last_critique |-> NoneText,
     root_run_id |-> NoId,
     trace_id |-> NoId,
     events |-> <<>>,
     result |-> NoneRec,
     executed |-> <<>>,
     calls |-> NoCalls,
     request |-> NoneRec,
     error |-> "none"]

\* StreamUpdate without the comparison against the last recorded draft/critique
StreamUpdate_NoDedup(acc, update) ==
    LET newDraft == Has(update, "draft") /\ ~IsBlank(update.draft)
        newCritique == Has(update, "critique") /\ ~IsBlank(update.critique)
    IN  [plan |-> IF Has(update, "plan") /\ ~IsBlank(update.plan)
                  THEN update.plan ELSE acc.plan,
         content_notes |-> IF Has(update, "content")
                           THEN update.content ELSE acc.content_notes,
         drafts |-> IF newDraft THEN Append(acc.drafts, update.draft) ELSE acc.drafts,
         last_draft |-> IF newDraft THEN update.draft ELSE acc.last_draft,
         critiques |-> IF newCritique THEN Append(acc.critiques, update.critique)
                       ELSE acc.critiques,
         last_critique |-> IF newCritique THEN update.critique ELSE acc.last_critique]

\* StreamUpdate recording a critique without the blank test
StreamUpdate_NoBlankCheck(acc, update) ==
    LET newDraft == Has(update, "draft") /\ ~IsBlank(update.draft)
                    /\ update.draft # acc.last_draft
        newCritique == Has(update, "critique") /\ update.critique # acc.last_critique
    IN  [plan |-> IF Has(update, "plan") /\ ~IsBlank(update.plan)
                  THEN update.plan ELSE acc.plan,
         content_notes |-> IF Has(update, "content")
                           THEN update.content ELSE acc.content_notes,
         drafts |-> IF newDraft THEN Append(acc.drafts, update.draft) ELSE acc.drafts,
         last_draft |-> IF newDraft THEN update.draft ELSE acc.last_draft,
         critiques |-> IF newCritique THEN Append(acc.critiques, update.critique)
                       ELSE acc.critiques,
         last_critique |-> IF newCritique THEN update.critique ELSE acc.last_critique]

\* the body of the for-loop of run_essay_stream, before the yield
StreamUpdate(acc, update) ==
    LET plan == IF Has(update, "plan") /\ ~IsBlank(update.plan)
                THEN update.plan ELSE acc.plan
        content_notes == IF Has(update, "content")
                         THEN update.content ELSE acc.content_notes
        newDraft == Has(update, "draft") /\ ~IsBlank(update.draft)
                    /\ update.draft # acc.last_draft
        newCritique == Has(update, "critique") /\ ~IsBlank(update.critique)
                       /\ update.critique # acc.last_critique
    IN  [plan |-> plan,
         content_notes |-> content_notes,
         drafts |-> IF newDraft THEN Append(acc.drafts, update.draft) ELSE acc.drafts,
         last_draft |-> IF newDraft THEN update.draft ELSE acc.last_draft,
         critiques |-> IF newCritique THEN Append(acc.critiques, update.critique)
                       ELSE acc.critiques,
         last_critique |-> IF newCritique THEN update.critique ELSE acc.last_critique]

\* _pull_state of run_essay: a one-key chunk {node: dict} gives the inner dict
PullState(chunk) == chunk.update

\* BatchUpdate without the .strip() test on the draft
BatchUpdate_NoBlankCheck(acc, stt) ==
    LET newDraft == Has(stt, "draft") /\ stt.draft # acc.last_draft
        newCritique == Has(stt, "critique") /\ ~IsBlank(stt.critique)
                       /\ stt.critique # acc.last_critique
    IN  [plan |-> IF Has(stt, "plan") /\ ~IsBlank(stt.plan) THEN stt.plan ELSE acc.plan,
         content_notes |-> IF Has(stt, "content") THEN stt.content
                           ELSE acc.content_notes,
         drafts |-> IF newDraft THEN Append(acc.drafts, stt.draft) ELSE acc.drafts,
         last_draft |-> IF newDraft THEN stt.draft ELSE acc.last_draft,
         critiques |-> IF newCritique THEN Append(acc.critiques, stt.critique)
                       ELSE acc.critiques,
         last_critique |-> IF newCritique THEN stt.critique ELSE acc.last_critique]

\* BatchUpdate keeping the latest plan even when it is blank
BatchUpdate_BlankPlan(acc, stt) ==
    LET newDraft == Has(stt, "draft") /\ ~IsBlank(stt.draft) /\ stt.draft # acc.last_draft
        newCritique == Has(stt, "critique") /\ ~IsBlank(stt.critique)
                       /\ stt.critique # acc.last_critique
    IN  [plan |-> IF Has(stt, "plan") THEN stt.plan ELSE acc.plan,
         content_notes |-> IF Has(stt, "content") THEN stt.content
                           ELSE acc.content_notes,
         drafts |-> IF newDraft THEN Append(acc.drafts, stt.draft) ELSE acc.drafts,
         last_draft |-> IF newDraft THEN stt.draft ELSE acc.last_draft,
         critiques |-> IF newCritique THEN Append(acc.critiques, stt.critique)
                       ELSE acc.critiques,
         last_critique |-> IF newCritique THEN stt.critique ELSE acc.last_critique]

\* one pass of the extraction loop of run_essay
BatchUpdate(acc, stt) ==
    LET plan == IF Has(stt, "plan") /\ ~IsBlank(stt.plan) THEN stt.plan ELSE acc.plan
        content_notes == IF Has(stt, "content") THEN stt.content ELSE acc.content_notes
        newDraft == Has(stt, "draft") /\ ~IsBlank(stt.draft) /\ stt.draft # acc.last_draft
        newCritique == Has(stt, "critique") /\ ~IsBlank(stt.critique)
                       /\ stt.critique # acc.last_critique
    IN  [plan |-> plan,
         content_notes |-> content_notes,
         drafts |-> IF newDraft THEN Append(acc.drafts, stt.draft) ELSE acc.drafts,
         last_draft |-> IF newDraft THEN stt.draft ELSE acc.last_draft,
         critiques |-> IF newCritique THEN Append(acc.critiques, stt.critique)
                       ELSE acc.critiques,
         last_critique |-> IF newCritique THEN stt.critique ELSE acc.last_critique]

EmptyAcc ==
    [plan |-> <<>>, content_notes |-> <<>>, drafts |-> <<>>, last_draft |-> NoneText,
     critiques |-> <<>>, last_critique |-> NoneText]

\* for s in snapshots: ... of run_essay
RECURSIVE BatchExtract(_, _)
BatchExtract(acc, snapshots) ==
    IF snapshots = <<>>
    THEN acc
    ELSE CHOOSE out \in
            {BatchExtract(BatchUpdate(a, PullState(Head(snapshots))), Tail(snapshots)) :
                a \in {acc}} : TRUE

Last(seq, default) == IF seq = <<>> THEN default ELSE seq[Len(seq)]

\* EssayRunResult returned by run_essay
BatchResult(rr, trace_id) ==
    LET acc == BatchExtract(EmptyAcc, rr.snapshots) IN
    [final_state |-> IF rr.snapshots = <<>> THEN <<>>
                     ELSE PullState(rr.snapshots[Len(rr.snapshots)]),
     snapshots |-> rr.snapshots,
     drafts |-> acc.drafts,
     critiques |-> acc.critiques,
     plan |-> acc.plan,
     content_notes |-> acc.content_notes,
     trace_id |-> trace_id]

\* EssayRunResult returned by run_essay_stream
StreamResult(rr, trace_id) ==
    [final_state |->
        [task |-> rr.cfg_dict.task,
         plan |-> rr.plan,
         content |-> rr.content_notes,
         draft |-> Last(rr.drafts, <<>>),
         critique |-> Last(rr.critiques, <<>>),
         revision_number |-> rr.cfg_dict.max_revisions + 1,
         max_revisions |-> rr.cfg_dict.max_revisions,
         config |-> ModelDump(rr.cfg_dict),
         thread_id |-> rr.thread_id],
     snapshots |-> rr.snapshots,
     drafts |-> rr.drafts,
     critiques |-> rr.critiques,
     plan |-> rr.plan,
     content_notes |-> rr.content_notes,
     trace_id |-> trace_id]

\* Chunk with the yield placed inside the draft branch of the loop body
Chunk_YieldInDraftBranch(rr, node, update) ==
    LET chunk == [node |-> node, update |-> update]
        acc == StreamUpdate(rr, update)
        event == [type |-> "node_update", node |-> node, update |-> update,
                  thread_id |-> rr.thread_id]
    IN  IF rr.mode = "stream"
        THEN [rr EXCEPT !.snapshots = Append(@, chunk),
                        !.plan = acc.plan,
                        !.content_notes = acc.content_notes,
                        !.drafts = acc.drafts,
                        !.last_draft = acc.last_draft,
                        !.critiques = acc.critiques,
                        !.last_critique = acc.last_critique,
                        !.events = IF Has(update, "draft") THEN Append(@, event) ELSE @]
        ELSE [rr EXCEPT !.snapshots = Append(@, chunk)]

\* one chunk of graph.stream reaching the loop body of the entry point:
\* run_essay appends it to snapshots; run_essay_stream also folds it and yields
Chunk(rr, node, update) ==
    LET chunk == [node |-> node, update |-> update]
        acc == StreamUpdate(rr, update)
        event == [type |-> "node_update", node |-> node, update |-> update,
                  thread_id |-> rr.thread_id]
    IN  IF rr.mode = "stream"
        THEN [rr EXCEPT !.snapshots = Append(@, chunk),
                        !.plan = acc.plan,
                        !.content_notes = acc.content_notes,
                        !.drafts = acc.drafts,
                        !.last_draft = acc.last_draft,
                        !.critiques = acc.critiques,
                        !.last_critique = acc.last_critique,
                        !.events = Append(@, event)]
        ELSE [rr EXCEPT !.snapshots = Append(@, chunk)]

\* one superstep of the compiled graph: the node's update is written to the
\* channels, the conditional edge picks the next node
Superstep(rr, node, update) ==
    LET state == Merge(rr.state, update) IN
    [Chunk(rr, node, update) EXCEPT !.state = state,
                                    !.pc = NextNode(node, state),
                                    !.executed = Append(@, node)]

\* an exception after which the graph runs the same node again
Raise_Retry(rr, kind) == [rr EXCEPT !.error = kind]

\* an exception swallowed inside the entry point: the stream just ends
Raise_Swallowed(rr, kind) == [rr EXCEPT !.pc = "END", !.error = kind]

\* an exception leaving a node: it passes through graph.stream, the trace
\* context and the entry point to the caller
Raise(rr, kind) == [rr EXCEPT !.pc = "failed", !.error = kind]

AddCalls(rr, c) ==
    [rr EXCEPT !.calls = [llm |-> @.llm + c.llm,
                          structured |-> @.structured + c.structured,
                          search |-> @.search + c.search,
                          provider |-> @.provider + c.provider]]

SaveThread(cps, rr) == Put(cps, <<GraphKey(rr.cfg_dict), rr.thread_id>>, rr.state)

----------------------------------------------------------------------------
\* app.py: the session script

InitSession ==
    [run_history |-> <<>>,
     selected_run_id |-> NoId,
     essay_result |-> NoneRec,
     essay_alias |-> NoId,
     run_config |-> NoneRec,
     live_ui_state |-> <<>>,
     ui_run_id |-> NoId,
     submits |-> 0,
     loads |-> 0,
     recorded |-> <<>>,
     load_outcome |-> "none"]

NewUi == [notes_idx |-> 0, notes_rendered |-> <<>>, drafts_seen |-> <<>>,
          critiques_seen |-> <<>>]

\* seq[-n:]
LastN(seq, n) == IF Len(seq) <= n THEN seq ELSE SubSeq(seq, Len(seq) - n + 1, Len(seq))

\* seq[:n]
FirstN(seq, n) == IF Len(seq) <= n THEN seq ELSE SubSeq(seq, 1, n)

\* the versions list of the live draft / critique panel
SeenUpdate(seen, text) ==
    LET d == Strip(text) IN
    IF Truthy(d) /\ (seen = <<>> \/ seen[Len(seen)] # d)
    THEN LastN(Append(seen, d), LiveVersionsCap)
    ELSE seen

\* the consumer loop body of app.py for one event
AppConsume(sess, event) ==
    LET update == event.update
        ui == sess.live_ui_state[sess.ui_run_id]
        all_notes == IF Has(update, "content") THEN update.content ELSE <<>>
        start == ui.notes_idx
        new_notes == IF start < Len(all_notes)
                     THEN SubSeq(all_notes, start + 1, Len(all_notes))
                     ELSE <<>>
        ui1 == IF Has(update, "content") /\ new_notes # <<>>
               THEN [ui EXCEPT !.notes_idx = Len(all_notes),
                               !.notes_rendered = LastN(@ \o new_notes, LiveNotesCap)]
               ELSE ui
        ui2 == IF Has(update, "draft")
               THEN [ui1 EXCEPT !.drafts_seen = SeenUpdate(@, update.draft)]
               ELSE ui1
        ui3 == IF Has(update, "critique")
               THEN [ui2 EXCEPT !.critiques_seen = SeenUpdate(@, update.critique)]
               ELSE ui2
    IN  IF event.type # "node_update"
        THEN sess
        ELSE [sess EXCEPT !.live_ui_state = Put(@, sess.ui_run_id, ui3)]

\* text.replace("\r\n", "\n")
RECURSIVE ReplaceCRLF(_)
ReplaceCRLF(t) ==
    IF t = <<>> THEN <<>>
    ELSE IF Len(t) >= 2 /\ t[1] = "\r" /\ t[2] = "\n"
    THEN <<"\n">> \o ReplaceCRLF(SubSeq(t, 3, Len(t)))
    ELSE <<Head(t)>> \o ReplaceCRLF(Tail(t))

\* NormalizeText without the strip
NormalizeText_NoStrip(t) == ReplaceCRLF(OrEmpty(t))

\* _normalize_text of exporters.py and _norm of bundle_zip.py
NormalizeText(t) == Strip(ReplaceCRLF(OrEmpty(t)))

\* build_export_bundle: the two text formats (docx and pdf are built from the
\* same normalized text)
BuildExportBundle(essay_text) ==
    [md |-> NormalizeText(essay_text), txt |-> NormalizeText(essay_text)]

NoFinalPlaceholder == <<"# Final\n\n(No final essay)\n">>

\* build_run_bundle_zip: the files of the archive that hold essay text
BuildRunBundleZip(essay_result, run_config) ==
    LET drafts == Get(essay_result, "drafts", <<>>)
        critiques == Get(essay_result, "critiques", <<>>)
        given == NormalizeText(Get(essay_result, "final", <<>>))
        final == IF Truthy(given) THEN given
                 ELSE IF drafts # <<>> THEN NormalizeText(drafts[Len(drafts)])
                 ELSE <<>>
        file(t) == IF Truthy(NormalizeText(t)) THEN NormalizeText(t) ELSE <<"(empty)">>
    IN  [final_md |-> IF Truthy(final) THEN final ELSE NoFinalPlaceholder,
         drafts_md |-> [i \in 1..Len(drafts) |-> file(drafts[i])],
         critiques_md |-> [i \in 1..Len(critiques) |-> file(critiques[i])],
         config_json |-> run_config,
         metadata |-> [trace_id |-> Get(essay_result, "trace_id", NoId),
                       drafts_count |-> Len(drafts),
                       critiques_count |-> Len(critiques)]]

\* the rendering part of the script, run at the end of every script run that is
\* not stopped: the bundle is built once into the displayed result dict, which
\* after "Load run" is the dict held by the history record
Display(sess) ==
    IF sess.essay_result = NoneRec \/ Has(sess.essay_result, "bundle_zip")
    THEN sess
    ELSE LET data == sess.essay_result @@
                        [bundle_zip |-> BuildRunBundleZip(sess.essay_result,
                                                          sess.run_config)]
             shared(rec) == rec.run_id = sess.essay_alias
         IN  [sess EXCEPT
                !.essay_result = data,
                !.run_history =
                    [i \in 1..Len(@) |->
                        IF shared(@[i]) THEN [@[i] EXCEPT !.essay_result = data]
                        ELSE @[i]]]

\* FinalOf taking the first draft instead of the last
FinalOf_FirstDraft(drafts) == IF drafts = <<>> THEN <<>> ELSE drafts[1]

\* "final": result.drafts[-1] if result.drafts else ""
FinalOf(drafts) == Last(drafts, <<>>)

\* AppRecord appending the record at the tail of the history
AppRecord_AtTail(sess, result, export_ok) ==
    LET essay_result_slim ==
            [plan |-> result.plan,
             content_notes |-> result.content_notes,
             drafts |-> result.drafts,
             critiques |-> result.critiques,
             final |-> FinalOf(result.drafts),
             trace_id |-> result.trace_id]
        run_record ==
            [run_id |-> result.trace_id,
             task |-> sess.run_config.task,
             config |-> sess.run_config,
             essay_result |-> essay_result_slim]
    IN  [sess EXCEPT
            !.essay_result = essay_result_slim @@
                                [exports |-> BuildExportBundle(essay_result_slim.final)],
            !.essay_alias = NoId,
            !.run_history = FirstN(@ \o <<run_record>>, HistoryCap),
            !.selected_run_id = run_record.run_id]

\* what the script does with the EssayRunResult of a completed run
AppRecord(sess, result, export_ok) ==
    LET essay_result_slim ==
            [plan |-> result.plan,
             content_notes |-> result.content_notes,
             drafts |-> result.drafts,
             critiques |-> result.critiques,
             final |-> FinalOf(result.drafts),
             trace_id |-> result.trace_id]
        essay_result ==
            IF export_ok
            THEN essay_result_slim @@
                    [exports |-> BuildExportBundle(essay_result_slim.final)]
            ELSE essay_result_slim @@ [exports_error |-> "ExportError"]
        run_record ==
            [run_id |-> IF essay_result_slim.trace_id # NoId
                        THEN essay_result_slim.trace_id ELSE sess.ui_run_id,
             task |-> sess.run_config.task,
             config |-> sess.run_config,
             essay_result |-> essay_result_slim]
    IN  [sess EXCEPT
            !.essay_result = essay_result,
            !.essay_alias = NoId,
            !.run_history = FirstN(<<run_record>> \o @, HistoryCap),
            !.selected_run_id = run_record.run_id]

----------------------------------------------------------------------------
\* Actions

Finished(r) == run[r].pc \in {"idle", "returned", "failed", "abandoned"}

\* the consumer of slot r receives what the step produced: the session script
\* handles the event it got from next(gen); an exception ends the script (st.stop)
Step(r, rr, cps, cache) ==
    /\ run' = [run EXCEPT ![r] = rr]
    /\ checkpoints' = cps
    /\ search_cache' = cache
    /\ session' = IF r = "app" /\ Len(rr.events) > Len(run[r].events)
                  THEN AppConsume(session, rr.events[Len(rr.events)])
                  ELSE session
    /\ UNCHANGED <<graph_cache, secrets, uuid_ctr, search_call>>

\* "Generate Essay": app.py from the submit check to the creation of the generator
Submit(raw) ==
    /\ Finished("app")
    /\ IF \/ IsBlank(raw.task)
          \/ "OPENAI_API_KEY" \notin secrets
          \/ (raw.use_research /\ "TAVILY_API_KEY" \notin secrets)
          \/ ~ConfigValid(raw)
       THEN /\ session' = [session EXCEPT !.submits = @ + 1]
            /\ UNCHANGED <<run, uuid_ctr>>
       ELSE /\ session' = [session EXCEPT
                              !.run_config = ModelDump(raw),
                              !.ui_run_id = Uuid(uuid_ctr + 1),
                              !.live_ui_state = Put(@, Uuid(uuid_ctr + 1), NewUi),
                              !.submits = @ + 1]
            /\ run' = [run EXCEPT !["app"] =
                          [IdleRun EXCEPT !.pc = "created", !.mode = "stream",
                                          !.cfg_dict = ModelDump(raw)]]
            /\ uuid_ctr' = uuid_ctr + 1
    /\ UNCHANGED <<checkpoints, graph_cache, search_cache, secrets, search_call>>

\* a direct call of run_essay (mode "batch") or run_essay_stream (mode "stream")
CallEntry(r, cfg_dict, mode) ==
    /\ r # "app"
    /\ Finished(r)
    /\ run' = [run EXCEPT ![r] =
                  [IdleRun EXCEPT !.pc = "created", !.mode = mode,
                                  !.cfg_dict = cfg_dict]]
    /\ UNCHANGED <<checkpoints, graph_cache, search_cache, secrets, session, uuid_ctr,
                   search_call>>

\* the entry point up to the first node: validation, get_compiled_graph,
\* thread id, initial state, root trace, and graph.stream loading the thread
Begin(r) ==
    LET rr == run[r]
        cfg_dict == rr.cfg_dict
        key == GraphKey(cfg_dict)
        given == Get(cfg_dict, "thread_id", NoThread)
        thread_id == ThreadIdFor(cfg_dict, uuid_ctr)
        drawn == IF given # NoThread THEN 0 ELSE 1
    IN  /\ rr.pc = "created"
        /\ IF ~ConfigValid(cfg_dict)
           THEN /\ run' = [run EXCEPT ![r] = Raise(rr, "ValidationError")]
                /\ UNCHANGED <<checkpoints, graph_cache, uuid_ctr>>
           ELSE IF key \notin graph_cache /\ "OPENAI_API_KEY" \notin secrets
           THEN /\ run' = [run EXCEPT ![r] = Raise(rr, "MissingSecretError")]
                /\ UNCHANGED <<checkpoints, graph_cache, uuid_ctr>>
           ELSE \E state \in {LoadThread(checkpoints, key, thread_id,
                                         InitialState(cfg_dict))} :
                /\ run' = [run EXCEPT ![r] =
                              [rr EXCEPT !.pc = "planner",
                                         !.thread_id = thread_id,
                                         !.resumed =
                                            <<key, thread_id>> \in DOMAIN checkpoints,
                                         !.root_run_id = Uuid(uuid_ctr + drawn + 1),
                                         !.state = state]]
                /\ graph_cache' = graph_cache \cup {key}
                /\ checkpoints' = Put(checkpoints, <<key, thread_id>>, state)
                /\ uuid_ctr' = uuid_ctr + drawn + 1
        /\ UNCHANGED <<search_cache, secrets, session, search_call>>

\* a node that makes one llm.invoke call
LlmStep(r, node, request, resp, update) ==
    /\ run[r].pc = node
    /\ \E rr \in {[AddCalls(run[r], [NoCalls EXCEPT !.llm = 1])
                        EXCEPT !.request = request]}, u \in {update} :
        IF resp.ok
        THEN \E done \in {Superstep(rr, node, u)} :
                Step(r, done, SaveThread(checkpoints, done), search_cache)
        ELSE \E failed \in {Raise(rr, "ProviderCallError")} :
                Step(r, failed, checkpoints, search_cache)

PlannerStep(r, resp) ==
    LlmStep(r, "planner", PlanRequest(run[r].state), resp, PlanNode(run[r].state, resp.content))

GenerateStep(r, resp) ==
    LlmStep(r, "generate", GenerationRequest(run[r].state), resp,
            GenerationNode(run[r].state, resp.content))

ReflectStep(r, resp) ==
    LlmStep(r, "reflect", ReflectionRequest(run[r].state), resp,
            ReflectionNode(run[r].state, resp.content))

\* a research node: computed is what the node function did
ResearchStep(r, node, computed) ==
    /\ run[r].pc = node
    /\ \E res \in {computed} :
       \E rr \in {[AddCalls(run[r], [llm |-> 0, structured |-> res.structured,
                                     search |-> res.search, provider |-> res.provider])
                    EXCEPT !.request = [node |-> node, asked |-> res.asked,
                                        queries |-> res.queries,
                                        returned |-> res.returned]]} :
        IF res.raised = "none"
        THEN \E done \in {Superstep(rr, node, [content |-> res.content])} :
                Step(r, done, SaveThread(checkpoints, done), res.cache)
        ELSE \E failed \in {Raise(rr, res.raised)} :
                Step(r, failed, checkpoints, res.cache)

ResearchPlanStep(r, sq, outs) ==
    ResearchStep(r, "research_plan",
                 ResearchPlanNode(run[r].state, sq, outs, search_cache))

ResearchCritiqueStep(r, sq, outs) ==
    ResearchStep(r, "research_critique",
                 ResearchCritiqueNode(run[r].state, sq, outs, search_cache))

\* graph.stream is exhausted: the entry point closes the trace and returns its
\* EssayRunResult; the session script stores it, exports, records and renders
Finish(r, export_ok) ==
    LET rr == run[r]
        trace_id == rr.root_run_id
    IN  /\ rr.pc = "END"
        /\ \E result \in {IF rr.mode = "stream"
                          THEN StreamResult(rr, trace_id)
                          ELSE BatchResult(rr, trace_id)} :
            /\ run' = [run EXCEPT ![r] = [rr EXCEPT !.pc = "returned",
                                                    !.trace_id = trace_id,
                                                    !.result = result]]
            /\ session' = IF r = "app"
                          THEN [Display(AppRecord(session, result, export_ok))
                                    EXCEPT !.recorded = <<trace_id>> \o @]
                          ELSE session
        /\ UNCHANGED <<checkpoints, graph_cache, search_cache, secrets, uuid_ctr,
                       search_call>>

\* Abandon with a producer that has already run the next node when the
\* consumer stops
Abandon_AfterPrefetch(r) ==
    /\ run[r].mode = "stream"
    /\ run[r].pc \in Nodes
    /\ run' = [run EXCEPT ![r] = [@ EXCEPT !.pc = "abandoned",
                                            !.executed = Append(@, run[r].pc)]]
    /\ UNCHANGED <<checkpoints, graph_cache, search_cache, secrets, session, uuid_ctr,
                   search_call>>

\* the consumer stops calling next(gen) and drops the generator, which is
\* suspended at its yield (or not started): no code of it runs any more
Abandon(r) ==
    /\ run[r].mode = "stream"
    /\ run[r].pc \in Nodes \cup {"END"}
    /\ run' = [run EXCEPT ![r] = [@ EXCEPT !.pc = "abandoned"]]
    /\ UNCHANGED <<checkpoints, graph_cache, search_cache, secrets, session, uuid_ctr,
                   search_call>>

\* "Load run" on the record selected in the sidebar, then the rendering
LoadRun(i) ==
    /\ Finished("app")
    /\ i \in 1..Len(session.run_history)
    /\ LET chosen == session.run_history[i] IN
       session' = Display([session EXCEPT
                              !.essay_result = chosen.essay_result,
                              !.essay_alias = chosen.run_id,
                              !.run_config = chosen.config,
                              !.selected_run_id = chosen.run_id,
                              !.loads = @ + 1])
    /\ UNCHANGED <<run, checkpoints, graph_cache, search_cache, secrets, uuid_ctr,
                   search_call>>

\* next(r for r in history if r["run_id"] == selected): the index of the first
\* record with that id, 0 when the generator is exhausted (StopIteration)
Lookup(history, selected) ==
    IF \E i \in 1..Len(history) : history[i].run_id = selected
    THEN CHOOSE i \in 1..Len(history) :
            /\ history[i].run_id = selected
            /\ \A j \in 1..(i - 1) : history[j].run_id # selected
    ELSE 0

\* the "Load run" handler applied to an identifier: the lookup has no default,
\* so an identifier that is not in the history ends the script run with
\* StopIteration before anything is stored
LoadSelected(selected) ==
    /\ Finished("app")
    /\ session.run_history # <<>>
    /\ LET i == Lookup(session.run_history, selected) IN
       IF i = 0
       THEN session' = [session EXCEPT !.load_outcome = "StopIteration",
                                       !.loads = @ + 1]
       ELSE LET chosen == session.run_history[i] IN
            session' = Display([session EXCEPT
                                   !.essay_result = chosen.essay_result,
                                   !.essay_alias = chosen.run_id,
                                   !.run_config = chosen.config,
                                   !.selected_run_id = chosen.run_id,
                                   !.load_outcome = "loaded",
                                   !.loads = @ + 1])
    /\ UNCHANGED <<run, checkpoints, graph_cache, search_cache, secrets, uuid_ctr,
                   search_call>>

\* ClearHistory leaving the selection in the session
ClearHistory_KeepsSelection ==
    /\ Finished("app")
    /\ session.run_history # <<>>
    /\ session' = [session EXCEPT !.run_history = <<>>,
                                  !.essay_result = NoneRec,
                                  !.essay_alias = NoId,
                                  !.recorded = <<>>]
    /\ UNCHANGED <<run, checkpoints, graph_cache, search_cache, secrets, uuid_ctr,
                   search_call>>

\* ClearHistory leaving the stored result in the session
ClearHistory_KeepsResult ==
    /\ Finished("app")
    /\ session.run_history # <<>>
    /\ session' = [session EXCEPT !.run_history = <<>>,
                                  !.selected_run_id = NoId,
                                  !.recorded = <<>>]
    /\ UNCHANGED <<run, checkpoints, graph_cache, search_cache, secrets, uuid_ctr,
                   search_call>>

\* "Clear history"
ClearHistory ==
    /\ Finished("app")
    /\ session.run_history # <<>>
    /\ session' = [session EXCEPT !.run_history = <<>>,
                                  !.selected_run_id = NoId,
                                  !.essay_result = NoneRec,
                                  !.essay_alias = NoId,
                                  !.recorded = <<>>]
    /\ UNCHANGED <<run, checkpoints, graph_cache, search_cache, secrets, uuid_ctr,
                   search_call>>

----------------------------------------------------------------------------
\* Inputs

T_Q == <<"q">>

LLM(texts) ==
    {[ok |-> TRUE, content |-> t] : t \in texts} \cup {[ok |-> FALSE, content |-> <<>>]}

Structured(lists) ==
    {[ok |-> TRUE, queries |-> qs] : qs \in lists} \cup {[ok |-> FALSE, queries |-> <<>>]}

TavilyFull ==
    [kind |-> "ok",
     resp |-> [answer |-> T_A_PAD,
               results |-> << [title |-> T_EMPTY, url |-> T_B, content |-> NoneText] >>]]

TavilyEmpty == [kind |-> "ok", resp |-> [answer |-> NoneText, results |-> <<>>]]

TavilyDown == [kind |-> "provider_error"]

\* what the provider can do for each query of a research node
Outcomes(sq, outcomes) ==
    IF "TAVILY_API_KEY" \in secrets
    THEN [1..Len(sq.queries) -> outcomes]
    ELSE [1..Len(sq.queries) -> {[kind |-> "missing_secret"]}]

BaseConfig ==
    [model |-> "gpt-4o-mini", temperature |-> 0, length_mode |-> "Medium",
     target_words |-> NoWords, use_research |-> TRUE, max_results |-> 2,
     max_revisions |-> 2, task |-> T_A]

AllSecrets == {"OPENAI_API_KEY", "TAVILY_API_KEY"}

InitWith(secretSets) ==
    /\ run = [s \in Slots |-> IdleRun]
    /\ checkpoints = <<>>
    /\ graph_cache = {}
    /\ search_cache = <<>>
    /\ secrets \in secretSets
    /\ session = InitSession
    /\ uuid_ctr = 0
    /\ search_call = NoSearchCall

----------------------------------------------------------------------------
\* Spec: one call of an entry point, with every provider answer open

PlanTexts == {T_WS, T_A}
DraftTexts == {T_WS, T_A, T_B}
CritiqueTexts == {T_WS, T_A, T_B}
QueryLists == {<<>>, <<T_WS, T_Q>>}
TavilyOutcomes == {TavilyFull, TavilyEmpty, TavilyDown}

EngineConfigs ==
    {[BaseConfig EXCEPT !.max_revisions = n, !.use_research = u] :
        n \in 0..MaxRev, u \in BOOLEAN}

Init == InitWith({AllSecrets})

Call ==
    \E cfg \in EngineConfigs, mode \in {"stream", "batch"} :
        /\ \A s \in Slots : run[s].pc = "idle"
        /\ CallEntry("api1", cfg, mode)

Enter == Begin("api1")

Planner == \E resp \in LLM(PlanTexts) : PlannerStep("api1", resp)

ResearchPlan ==
    \E sq \in Structured(QueryLists) :
        \E outs \in Outcomes(sq, TavilyOutcomes) : ResearchPlanStep("api1", sq, outs)

Generate == \E resp \in LLM(DraftTexts) : GenerateStep("api1", resp)

Reflect == \E resp \in LLM(CritiqueTexts) : ReflectStep("api1", resp)

ResearchCritique ==
    \E sq \in Structured(QueryLists) :
        \E outs \in Outcomes(sq, TavilyOutcomes) : ResearchCritiqueStep("api1", sq, outs)

Return == Finish("api1", TRUE)

Next ==
    \/ Call
    \/ Enter
    \/ Planner
    \/ ResearchPlan
    \/ Generate
    \/ Reflect
    \/ ResearchCritique
    \/ Return

Spec == Init /\ [][Next]_vars

----------------------------------------------------------------------------
\* Reading a run

Returned(r) == run[r].pc = "returned"

MaxRevOf(r) == run[r].cfg_dict.max_revisions

UsesResearch(r) == run[r].cfg_dict.use_research

\* how often node n has executed in the run so far
Executions(r, n) == Cardinality({i \in 1..Len(run[r].executed) : run[r].executed[i] = n})

\* the values a field took in the chunks of the run, in order
Emitted(r, field) ==
    LET idx == {i \in 1..Len(run[r].snapshots) : Has(run[r].snapshots[i].update, field)}
        RECURSIVE Collect(_)
        Collect(i) ==
            IF i > Len(run[r].snapshots) THEN <<>>
            ELSE IF i \in idx
            THEN <<run[r].snapshots[i].update[field]>> \o Collect(i + 1)
            ELSE Collect(i + 1)
    IN  Collect(1)

NoneBlank(texts) == \A i \in 1..Len(texts) : ~IsBlank(texts[i])

NoAdjacentEqual(texts) == \A i \in 1..(Len(texts) - 1) : texts[i] # texts[i + 1]

\* no draft or critique of the run is blank or repeats its predecessor
CleanRun(r) ==
    /\ NoneBlank(Emitted(r, "draft")) /\ NoAdjacentEqual(Emitted(r, "draft"))
    /\ NoneBlank(Emitted(r, "critique")) /\ NoAdjacentEqual(Emitted(r, "critique"))

----------------------------------------------------------------------------
\* C1: a completed run with max_revisions = N > 0 whose drafts and critiques are
\* non-blank and pairwise distinct in sequence returns N+1 drafts and N
\* critiques; without research and with N = 1 it returns 2 drafts, 1 critique,
\* the planner's response as plan and no notes.
C1_DraftsAndCritiques ==
    \A r \in Slots :
        (Returned(r) /\ MaxRevOf(r) > 0 /\ CleanRun(r)) =>
            /\ Len(run[r].result.drafts) = MaxRevOf(r) + 1
            /\ Len(run[r].result.critiques) = MaxRevOf(r)
            /\ (MaxRevOf(r) = 1 /\ ~UsesResearch(r)) =>
                  /\ Emitted(r, "plan") = <<run[r].result.plan>>
                  /\ run[r].result.content_notes = <<>>

\* C2 as stated: a completed run with max_revisions = 0 executes generate once,
\* never reflect, and returns exactly one draft and no critique.
C2_ZeroRevisionsOriginal ==
    \A r \in Slots :
        (Returned(r) /\ MaxRevOf(r) = 0) =>
            /\ Executions(r, "generate") = 1
            /\ Executions(r, "reflect") = 0
            /\ Len(run[r].result.drafts) = 1
            /\ run[r].result.critiques = <<>>

\* C2 amended: a completed run with max_revisions = 0 executes generate once,
\* never reflect, returns no critique, and returns the generated draft as its
\* only draft unless that draft is blank, in which case it returns no draft.
C2_ZeroRevisions ==
    \A r \in Slots :
        (Returned(r) /\ MaxRevOf(r) = 0) =>
            /\ Executions(r, "generate") = 1
            /\ Executions(r, "reflect") = 0
            /\ run[r].result.critiques = <<>>
            /\ Len(Emitted(r, "draft")) = 1
            /\ run[r].result.drafts =
                  IF IsBlank(Emitted(r, "draft")[1]) THEN <<>> ELSE Emitted(r, "draft")

C2_Witness ==
    \E r \in Slots :
        /\ Returned(r) /\ MaxRevOf(r) = 0
        /\ Len(run[r].result.drafts) = 1
        /\ run[r].executed = <<"planner", "research_plan", "generate">>

\* C4: the streamed and the batched entry point return the same plan, notes,
\* drafts and critiques for the same chunks of the graph: the result of a
\* streamed run is what run_essay extracts from its snapshots, and the result
\* of a batched run is what the loop of run_essay_stream accumulates over them.
RECURSIVE StreamExtract(_, _)
StreamExtract(acc, snapshots) ==
    IF snapshots = <<>>
    THEN acc
    ELSE StreamExtract(StreamUpdate(acc, Head(snapshots).update), Tail(snapshots))

Core(x) ==
    [plan |-> x.plan, content_notes |-> x.content_notes, drafts |-> x.drafts,
     critiques |-> x.critiques]

C4_StreamEqualsBatch ==
    \A r \in Slots :
        Returned(r) =>
            /\ Core(run[r].result) = Core(BatchExtract(EmptyAcc, run[r].snapshots))
            /\ Core(run[r].result) = Core(StreamExtract(EmptyAcc, run[r].snapshots))

C4_Witness ==
    \E r \in Slots :
        /\ Returned(r) /\ run[r].mode = "stream"
        /\ Len(run[r].result.drafts) >= 2
        /\ Len(run[r].result.critiques) >= 1
        /\ run[r].result.content_notes # <<>>
        /\ IsBlank(Emitted(r, "plan")[1])

\* C5: in a run with use_research = false the notes are empty at every point
\* (in the graph state, in every content update, in the caller's accumulator
\* and in the result), and no structured query set is requested and no search
\* is made, by research_plan or by research_critique.
C5_NoResearch ==
    \A r \in Slots :
        (run[r].pc # "idle" /\ ~UsesResearch(r)) =>
            /\ run[r].content_notes = <<>>
            /\ run[r].state # NoneRec => run[r].state.content = <<>>
            /\ \A i \in 1..Len(Emitted(r, "content")) : Emitted(r, "content")[i] = <<>>
            /\ Returned(r) => run[r].result.content_notes = <<>>
            /\ run[r].calls.structured = 0
            /\ run[r].calls.search = 0
            /\ run[r].calls.provider = 0

C5_Witness ==
    \E r \in Slots :
        /\ Returned(r) /\ ~UsesResearch(r)
        /\ Executions(r, "research_plan") = 1
        /\ Executions(r, "research_critique") >= 1
        /\ \E i \in 1..Len(Emitted(r, "critique")) : ~IsBlank(Emitted(r, "critique")[i])

\* C6: the recorded drafts are the non-blank drafts of the run with every
\* draft equal to the last recorded one left out, and likewise the critiques;
\* so no draft list and no critique list, accumulated or returned, holds two
\* adjacent equal entries, and the same draft twice in a row is recorded once.
RECURSIVE Compress(_, _)
Compress(texts, last) ==
    IF texts = <<>> THEN <<>>
    ELSE IF IsBlank(Head(texts)) \/ Head(texts) = last
    THEN Compress(Tail(texts), last)
    ELSE <<Head(texts)>> \o Compress(Tail(texts), Head(texts))

DeltaKeys(node) ==
    CASE node = "planner" -> {"plan"}
      [] node = "generate" -> {"draft", "revision_number"}
      [] node = "reflect" -> {"critique"}
      [] OTHER -> {"content"}

C9_OneEventPerNode ==
    \A r \in Slots :
        /\ run[r].mode = "stream" =>
              /\ Len(run[r].events) = Len(run[r].executed)
              /\ \A i \in 1..Len(run[r].events) :
                    /\ run[r].events[i] =
                          [type |-> "node_update",
                           node |-> run[r].executed[i],
                           update |-> run[r].snapshots[i].update,
                           thread_id |-> run[r].thread_id]
                    /\ run[r].snapshots[i].node = run[r].executed[i]
                    /\ DOMAIN run[r].events[i].update = DeltaKeys(run[r].executed[i])
        /\ run[r].mode = "batch" => run[r].events = <<>>
        /\ (run[r].result # NoneRec) <=> Returned(r)
        /\ Returned(r) => run[r].result.snapshots = run[r].snapshots

C9_Witness ==
    \E r \in Slots :
        /\ Returned(r) /\ run[r].mode = "stream"
        /\ Len(run[r].events) = 6
        /\ run[r].events[5].node = "research_critique"
        /\ run[r].events[6].update.revision_number = 3

----------------------------------------------------------------------------
\* LiveSpec: one call of an entry point whose provider calls all return (with
\* an answer or an error); the run's own steps are taken whenever they can be.
\* A run is cut off after StepCap node executions, more than any run makes.

LivePlanTexts == {T_A}
LiveDraftTexts == {T_A, T_B}
LiveCritiqueTexts == {T_WS, T_A}
LiveQueryLists == {<<T_Q>>}
LiveOutcomes == {TavilyFull}

StepCap == 3 * MaxRev + 6

LiveCall ==
    \E cfg \in EngineConfigs, mode \in {"stream", "batch"} :
        /\ \A s \in Slots : run[s].pc = "idle"
        /\ CallEntry("api1", cfg, mode)

LiveEnter == Begin("api1")

LivePlanner == \E resp \in LLM(LivePlanTexts) : PlannerStep("api1", resp)

LiveResearchPlan ==
    \E sq \in Structured(LiveQueryLists) :
        \E outs \in Outcomes(sq, LiveOutcomes) : ResearchPlanStep("api1", sq, outs)

LiveGenerate ==
    /\ Len(run["api1"].executed) < StepCap
    /\ \E resp \in LLM(LiveDraftTexts) : GenerateStep("api1", resp)

LiveReflect == \E resp \in LLM(LiveCritiqueTexts) : ReflectStep("api1", resp)

LiveResearchCritique ==
    \E sq \in Structured(LiveQueryLists) :
        \E outs \in Outcomes(sq, LiveOutcomes) : ResearchCritiqueStep("api1", sq, outs)

LiveReturn == Finish("api1", TRUE)

LiveRun ==
    \/ LiveEnter
    \/ LivePlanner
    \/ LiveResearchPlan
    \/ LiveGenerate
    \/ LiveReflect
    \/ LiveResearchCritique
    \/ LiveReturn

LiveNext ==
    \/ LiveCall
    \/ LiveEnter
    \/ LivePlanner
    \/ LiveResearchPlan
    \/ LiveGenerate
    \/ LiveReflect
    \/ LiveResearchCritique
    \/ LiveReturn

LiveSpec == Init /\ [][LiveNext]_vars /\ WF_vars(LiveRun)

\* C3: every run terminates: a call of an entry point whose provider calls all
\* return reaches END and returns, or fails, for every max_revisions.
C3_Terminates ==
    \A r \in Slots :
        (run[r].pc = "created") ~> (run[r].pc \in {"returned", "failed"})

C3_Witness ==
    \E r \in Slots :
        /\ Returned(r)
        /\ MaxRevOf(r) = MaxRev
        /\ Executions(r, "generate") = MaxRev
        /\ run[r].state.revision_number = MaxRev + 1

----------------------------------------------------------------------------
\* HistorySpec: one session making many runs of the smallest kind (no revision,
\* no research, providers answering), with "Clear history" at any time between
\* runs and a bounded number of "Load run" clicks

MaxLoads == 1

HistoryConfig == [BaseConfig EXCEPT !.max_revisions = 0, !.use_research = FALSE]

HistSubmit ==
    /\ session.submits < MaxSessionRuns
    /\ Submit(HistoryConfig)

HistEnter == Begin("app")

HistPlanner == PlannerStep("app", [ok |-> TRUE, content |-> T_A])

HistResearchPlan ==
    ResearchPlanStep("app", [ok |-> TRUE, queries |-> <<>>], <<>>)

HistGenerate == GenerateStep("app", [ok |-> TRUE, content |-> T_B])

HistReturn == Finish("app", TRUE)

HistLoad ==
    /\ session.loads < MaxLoads
    /\ \E i \in 1..HistoryCap : LoadRun(i)

HistClear == ClearHistory

HistoryNext ==
    \/ HistSubmit
    \/ HistEnter
    \/ HistPlanner
    \/ HistResearchPlan
    \/ HistGenerate
    \/ HistReturn
    \/ HistLoad
    \/ HistClear

HistorySpec == Init /\ [][HistoryNext]_vars

RunIds(history) == [i \in 1..Len(history) |-> history[i].run_id]

\* C7: the run history holds at most 15 records, newest first, and they are
\* exactly the most recently recorded runs since the last clear: its run ids
\* are the first 15 of the ids recorded since the last clear, newest first.
C7_HistoryCapped ==
    /\ Len(session.run_history) <= HistoryCap
    /\ RunIds(session.run_history) = FirstN(session.recorded, HistoryCap)
    /\ \A i \in 1..(Len(session.run_history) - 1) :
          session.run_history[i].run_id[2] > session.run_history[i + 1].run_id[2]

C7_Witness ==
    /\ Len(session.recorded) = HistoryCap + 1
    /\ Len(session.run_history) = HistoryCap
    /\ session.loads > 0
    /\ session.submits > HistoryCap + 1

----------------------------------------------------------------------------
\* AppSpec: one session with a few submits of every kind (blank task, missing
\* secrets, research on or off), every provider call able to fail, exports able
\* to fail, and "Load run" / "Clear history" between runs

AppSecretSets == {AllSecrets, {"OPENAI_API_KEY"}, {"TAVILY_API_KEY"}}

AppConfigs ==
    {[BaseConfig EXCEPT !.task = t, !.max_revisions = n, !.use_research = u] :
        t \in {T_A, T_WS}, n \in {0, 2}, u \in BOOLEAN}

AppTexts == {T_A}
AppQueryLists == {<<T_Q>>}
AppOutcomes == {TavilyFull, TavilyDown}

AppInit == InitWith(AppSecretSets)

AppSubmit ==
    /\ session.submits < MaxRuns
    /\ \E raw \in AppConfigs : Submit(raw)

AppEnter == Begin("app")

AppPlanner == \E resp \in LLM(AppTexts) : PlannerStep("app", resp)

AppResearchPlan ==
    \E sq \in Structured(AppQueryLists) :
        \E outs \in Outcomes(sq, AppOutcomes) : ResearchPlanStep("app", sq, outs)

AppGenerate == \E resp \in LLM(AppTexts) : GenerateStep("app", resp)

AppReflect == \E resp \in LLM(AppTexts) : ReflectStep("app", resp)

AppResearchCritique ==
    \E sq \in Structured(AppQueryLists) :
        \E outs \in Outcomes(sq, AppOutcomes) : ResearchCritiqueStep("app", sq, outs)

AppReturn == \E export_ok \in BOOLEAN : Finish("app", export_ok)

AppLoad ==
    /\ session.loads < MaxLoads
    /\ \E i \in 1..MaxRuns : LoadRun(i)

AppClear == ClearHistory

AppNext ==
    \/ AppSubmit
    \/ AppEnter
    \/ AppPlanner
    \/ AppResearchPlan
    \/ AppGenerate
    \/ AppReflect
    \/ AppResearchCritique
    \/ AppReturn
    \/ AppLoad
    \/ AppClear

AppSpec == AppInit /\ [][AppNext]_vars

\* the session's run between its creation and the end of the graph's stream
AppRunning == run["app"].pc \in {"created"} \cup Nodes

\* a submit that st.stop() ended before a generator was created
AppRejected ==
    /\ session'.submits = session.submits + 1
    /\ run' = run

IsPrefix(s, t) == Len(s) <= Len(t) /\ SubSeq(t, 1, Len(s)) = s

\* C8: a run that fails in a node, or a submit rejected before starting, gives
\* no result and no history entry: a failed run has no result and no record
\* under its id, every step of a run before the end of its stream and every
\* rejected submit leaves the run history as it was, and a step of the run
\* only adds to the events delivered before it.
C8_FailedRunLeavesHistory ==
    /\ [](\A r \in Slots :
            run[r].error # "none" =>
                /\ run[r].pc = "failed"
                /\ run[r].result = NoneRec
                /\ \A i \in 1..Len(session.run_history) :
                      session.run_history[i].run_id # run[r].root_run_id
                /\ Len(run[r].events) = Len(run[r].executed))
    /\ [][(AppRunning \/ AppRejected) =>
            /\ session'.run_history = session.run_history
            /\ session'.recorded = session.recorded
            /\ AppRunning =>
                  /\ run'["app"].result = NoneRec
                  /\ IsPrefix(run["app"].events, run'["app"].events)]_vars

C8_Witness ==
    /\ run["app"].pc = "failed"
    /\ run["app"].error # "none"
    /\ run["app"].result = NoneRec
    /\ Len(run["app"].events) = 4
    /\ run["app"].events[4].node = "reflect"
    /\ Len(session.run_history) = 1
    /\ Len(session.live_ui_state[session.ui_run_id].drafts_seen) = 1

----------------------------------------------------------------------------
\* PairSpec: calls of the entry points on two slots, interleaved step by step,
\* all with the same (model, temperature); a call may carry a thread_id.
\* The calls are bounded through the identifiers they draw.

GivenThread == <<"given", 1>>

PairConfigs ==
    {[BaseConfig EXCEPT !.use_research = u] : u \in BOOLEAN}
    \cup
    {[BaseConfig EXCEPT !.use_research = FALSE] @@ [thread_id |-> GivenThread]}

PairSlots == {"api1", "api2"}

PairCall ==
    \E r \in PairSlots, cfg \in PairConfigs :
        /\ uuid_ctr < 2 * MaxRuns
        /\ CallEntry(r, cfg, "stream")

PairEnter == \E r \in PairSlots : Begin(r)

PairPlanner ==
    \E r \in PairSlots : PlannerStep(r, [ok |-> TRUE, content |-> T_A])

PairResearchPlan ==
    \E r \in PairSlots, sq \in {[ok |-> TRUE, queries |-> <<T_Q>>]} :
        \E outs \in Outcomes(sq, {TavilyFull}) : ResearchPlanStep(r, sq, outs)

PairGenerate ==
    \E r \in PairSlots : GenerateStep(r, [ok |-> TRUE, content |-> T_B])

PairReflect ==
    \E r \in PairSlots : ReflectStep(r, [ok |-> TRUE, content |-> T_A])

PairResearchCritique ==
    \E r \in PairSlots, sq \in {[ok |-> TRUE, queries |-> <<T_Q>>]} :
        \E outs \in Outcomes(sq, {TavilyFull}) : ResearchCritiqueStep(r, sq, outs)

PairReturn == \E r \in PairSlots : Finish(r, TRUE)

PairNext ==
    \/ PairCall
    \/ PairEnter
    \/ PairPlanner
    \/ PairResearchPlan
    \/ PairGenerate
    \/ PairReflect
    \/ PairResearchCritique
    \/ PairReturn

PairSpec == Init /\ [][PairNext]_vars

\* the graph state a run has when it only ever sees its own input and the
\* updates of its own nodes
RECURSIVE FoldUpdates(_, _)
FoldUpdates(state, snapshots) ==
    IF snapshots = <<>>
    THEN state
    ELSE FoldUpdates(Merge(state, Head(snapshots).update), Tail(snapshots))

OwnState(r) == FoldUpdates(InitialState(run[r].cfg_dict), run[r].snapshots)

Started(r) == run[r].state # NoneRec

GivesThread(r) == Get(run[r].cfg_dict, "thread_id", NoThread) # NoThread

\* C10 as stated: whatever two runs share, the state the nodes of a run read is
\* made of the run's own input and its own nodes' updates only, and two runs
\* never work under the same thread identifier.
C10_IndependentOriginal ==
    /\ \A r \in Slots : Started(r) => run[r].state = OwnState(r)
    /\ \A r1, r2 \in Slots :
          (r1 # r2 /\ Started(r1) /\ Started(r2)) =>
              run[r1].thread_id # run[r2].thread_id

\* What does hold: a run whose call carries no thread_id works under a fresh
\* thread identifier that no other run has, starts from its own fresh state,
\* reads only what its own nodes wrote, and is the only writer of its thread's
\* checkpoint; so does a run whose thread_id no earlier run has used.
FreshThreadsIndependent ==
    \A r \in Slots :
        Started(r) =>
            /\ ~run[r].resumed => run[r].state = OwnState(r)
            /\ ~GivesThread(r) =>
                  /\ ~run[r].resumed
                  /\ \A r2 \in Slots \ {r} : run[r2].thread_id # run[r].thread_id
                  /\ checkpoints[<<GraphKey(run[r].cfg_dict), run[r].thread_id>>]
                        = run[r].state

InterleavedFreshRuns ==
    /\ run["api1"].pc = "reflect"
    /\ run["api2"].pc = "generate"
    /\ ~GivesThread("api1") /\ ~GivesThread("api2")
    /\ GraphKey(run["api1"].cfg_dict) = GraphKey(run["api2"].cfg_dict)
    /\ Has(run["api2"].state, "critique")
    /\ uuid_ctr = 4

----------------------------------------------------------------------------
\* SearchSpec: direct calls of run_tavily_search, with any query, any
\* max_results around the accepted range and any behaviour of the provider;
\* the cache of tavily_search_cached lives across the calls

MaxSearchCalls == 2

SearchQueries == {NoneText, T_EMPTY, T_WS, T_Q, <<" ", "q", " ">>}

SearchMaxResults == {MinResults - 1, MinResults, MaxResultsLimit, MaxResultsLimit + 1}

TavilyBlankTitles ==
    [kind |-> "ok",
     resp |-> [answer |-> T_WS,
               results |-> << [title |-> T_WS, url |-> NoneText, content |-> T_A],
                              [title |-> T_B, url |-> T_A, content |-> T_EMPTY] >>]]

TavilyMalformed ==
    [kind |-> "ok", resp |-> [answer |-> T_A, results |-> << JunkItem >>]]

TavilyNotDict == [kind |-> "not_dict"]

TavilySilentFailure == [kind |-> "provider_error", cause |-> <<>>]

SearchOutcomes ==
    {TavilyFull, TavilyEmpty, TavilyBlankTitles, TavilyMalformed, TavilyNotDict,
     TavilyDown, TavilySilentFailure}

SearchInit == InitWith({AllSecrets, {"OPENAI_API_KEY"}})

\* one call run_tavily_search(query, max_results)
SearchCall(query, max_results, out) ==
    /\ \E res \in {RunTavilySearch(query, max_results, out, search_cache)} :
        /\ search_call' =
              [n |-> search_call.n + 1, query |-> query, max_results |-> max_results,
               out |-> out,
               cached |-> <<Strip(OrEmpty(query)), max_results>> \in DOMAIN search_cache,
               raised |-> res.raised, notes |-> res.notes,
               provider_calls |-> res.provider_calls,
               message |-> Get(res, "message", <<>>)]
        /\ search_cache' = res.cache
    /\ UNCHANGED <<run, checkpoints, graph_cache, secrets, session, uuid_ctr>>

Search ==
    /\ search_call.n < MaxSearchCalls
    /\ \E query \in SearchQueries, max_results \in SearchMaxResults :
        \E out \in IF "TAVILY_API_KEY" \in secrets
                   THEN SearchOutcomes
                   ELSE {[kind |-> "missing_secret"]} :
            SearchCall(query, max_results, out)

SearchNext == Search

SearchSpec == SearchInit /\ [][SearchNext]_vars

Called == search_call.n > 0

BlankQuery == IsBlank(OrEmpty(search_call.query))

ValidMaxResults ==
    search_call.max_results >= MinResults /\ search_call.max_results <= MaxResultsLimit

\* C12: a search with an empty or whitespace-only (or missing) query returns
\* no notes, makes no provider call and raises nothing, for any valid
\* max_results.
C12_BlankQueryNoOp ==
    (Called /\ BlankQuery /\ ValidMaxResults) =>
        /\ search_call.notes = <<>>
        /\ search_call.provider_calls = 0
        /\ search_call.raised = "none"

C12_Witness ==
    /\ Called
    /\ search_call.query = T_WS
    /\ search_call.max_results = MaxResultsLimit
    /\ search_call.out = TavilyFull
    /\ search_call.notes = <<>>

\* C13 as stated: a search whose max_results lies outside [1,10] fails with
\* the invalid-argument error (ValueError) before any provider call, whatever
\* the query is.
C13_RangeCheckedOriginal ==
    (Called /\ ~ValidMaxResults) =>
        /\ search_call.raised = "ValueError"
        /\ search_call.provider_calls = 0

\* C13 amended: a search with a non-blank query whose max_results lies outside
\* [1,10] fails with ValueError before any provider call; with a blank query
\* it returns no notes and raises nothing, as for a valid max_results.
C13_RangeChecked ==
    (Called /\ ~ValidMaxResults) =>
        /\ search_call.provider_calls = 0
        /\ search_call.notes = <<>>
        /\ search_call.raised = IF BlankQuery THEN "none" ELSE "ValueError"

C13_Witness ==
    /\ Called
    /\ search_call.query = T_Q
    /\ search_call.max_results = MaxResultsLimit + 1
    /\ search_call.out = TavilyFull
    /\ search_call.raised = "ValueError"

\* the response the formatter of the last call was given
UsedResponse ==
    IF search_call.cached
    THEN search_cache[<<Strip(OrEmpty(search_call.query)), search_call.max_results>>]
    ELSE search_call.out.resp

\* the last call reached the provider path and something in it failed
ProviderPathFailed ==
    \/ ~search_call.cached /\ search_call.out.kind # "ok"
    \/ (search_call.cached \/ search_call.out.kind = "ok") /\ FormatRaises(UsedResponse)

\* C14: every failure on the provider path (missing credential, provider
\* error, response that is no dict, response that cannot be formatted) leaves
\* run_tavily_search as a ResearchError with a non-empty message, and nothing
\* but a ResearchError leaves a call that reached the provider path.
C14_OnlyResearchError ==
    (Called /\ ~BlankQuery /\ ValidMaxResults) =>
        /\ search_call.raised \in {"none", "ResearchError"}
        /\ ProviderPathFailed <=> search_call.raised = "ResearchError"
        /\ search_call.raised = "ResearchError" => search_call.message # <<>>

C14_Witness ==
    /\ Called
    /\ search_call.cached
    /\ search_call.out = TavilyFull
    /\ search_call.raised = "ResearchError"
    /\ search_call.provider_calls = 0

\* C19: on a successful search the notes are one summary-answer block iff the
\* provider gave a non-blank answer, then one block per result in the
\* provider's order, each headed by its number and its title or "Untitled".
HasAnswer(resp) == resp.answer # NoneText /\ ~IsBlank(resp.answer)

BlockHeading(i, r) ==
    <<"**Result ", ToString(i), ": ">>
        \o (IF IsBlank(OrEmpty(r.title)) THEN <<"Untitled">> ELSE Strip(r.title))
        \o <<"**">>

C19_NoteOrder ==
    (Called /\ ~BlankQuery /\ ValidMaxResults /\ search_call.raised = "none") =>
        LET resp == UsedResponse
            off == IF HasAnswer(resp) THEN 1 ELSE 0
            notes == search_call.notes
        IN  /\ Len(notes) = Len(resp.results) + off
            /\ HasAnswer(resp) =>
                  notes[1] = <<"**Summary answer:** ">> \o Strip(resp.answer)
            /\ \A i \in 1..Len(resp.results) :
                  IsPrefix(BlockHeading(i, resp.results[i]), notes[i + off])

C19_Witness ==
    /\ Called
    /\ search_call.out = TavilyFull
    /\ ~search_call.cached
    /\ search_call.raised = "none"
    /\ Len(search_call.notes) = 2
    /\ search_call.notes[1] = <<"**Summary answer:** ", "a">>
    /\ IsPrefix(<<"**Result ", "1", ": ", "Untitled", "**">>, search_call.notes[2])

----------------------------------------------------------------------------
\* CancelSpec: a session whose runs the user may abandon between two events
\* (the script run is stopped while the generator waits at its yield)

CancelConfigs ==
    {[BaseConfig EXCEPT !.max_revisions = n, !.use_research = u] :
        n \in {0, 2}, u \in BOOLEAN}

CancelSubmit ==
    /\ session.submits < MaxRuns
    /\ \E raw \in CancelConfigs : Submit(raw)

CancelEnter == Begin("app")

CancelPlanner == PlannerStep("app", [ok |-> TRUE, content |-> T_A])

CancelResearchPlan ==
    \E sq \in {[ok |-> TRUE, queries |-> <<T_Q>>]} :
        \E outs \in Outcomes(sq, {TavilyFull}) : ResearchPlanStep("app", sq, outs)

CancelGenerate == \E resp \in LLM({T_A, T_B}) : GenerateStep("app", resp)

CancelReflect == ReflectStep("app", [ok |-> TRUE, content |-> T_A])

CancelResearchCritique ==
    \E sq \in {[ok |-> TRUE, queries |-> <<T_Q>>]} :
        \E outs \in Outcomes(sq, {TavilyFull}) : ResearchCritiqueStep("app", sq, outs)

CancelReturn == Finish("app", TRUE)

CancelAbandon == Abandon("app")

CancelNext ==
    \/ CancelSubmit
    \/ CancelEnter
    \/ CancelPlanner
    \/ CancelResearchPlan
    \/ CancelGenerate
    \/ CancelReflect
    \/ CancelResearchCritique
    \/ CancelReturn
    \/ CancelAbandon

CancelSpec == Init /\ [][CancelNext]_vars

\* C11: a streamed run abandoned after k events has executed exactly the k
\* nodes of those events and made exactly their provider calls; afterwards it
\* executes no node and makes no call, and it has no result and no history
\* entry.
C11_AbandonAtBoundary ==
    /\ [](\A r \in Slots :
            run[r].pc = "abandoned" =>
                /\ Len(run[r].executed) = Len(run[r].events)
                /\ \A i \in 1..Len(run[r].events) :
                      run[r].events[i].node = run[r].executed[i]
                /\ run[r].calls.llm =
                      Executions(r, "planner") + Executions(r, "generate")
                        + Executions(r, "reflect")
                /\ run[r].calls.structured <=
                      Executions(r, "research_plan") + Executions(r, "research_critique")
                /\ run[r].result = NoneRec
                /\ \A i \in 1..Len(session.run_history) :
                      session.run_history[i].run_id # run[r].root_run_id)
    /\ [][\A r \in Slots :
            run[r].pc = "abandoned" =>
                \/ run'[r] = run[r]
                \/ run'[r].pc = "created"]_vars

C11_Witness ==
    /\ run["app"].pc = "abandoned"
    /\ Len(run["app"].events) = 4
    /\ run["app"].calls.llm = 3
    /\ run["app"].calls.provider = 1
    /\ Len(session.run_history) = 1

----------------------------------------------------------------------------
\* StoreSpec: the run history used as a store: runs are recorded, the history
\* is cleared, and "Load run" is applied to any identifier drawn so far (the
\* identifiers of records held, of records cleared away, of threads and of
\* live panels)

StoreSubmit ==
    /\ session.submits < MaxRuns
    /\ Submit(HistoryConfig)

StoreEnter == Begin("app")

StorePlanner == PlannerStep("app", [ok |-> TRUE, content |-> T_A])

StoreResearchPlan ==
    ResearchPlanStep("app", [ok |-> TRUE, queries |-> <<>>], <<>>)

StoreGenerate == \E resp \in LLM({T_A, T_WS}) : GenerateStep("app", resp)

StoreReturn == \E export_ok \in BOOLEAN : Finish("app", export_ok)

StoreLoad ==
    /\ session.loads < MaxLoads + 1
    /\ \E k \in 1..uuid_ctr : LoadSelected(Uuid(k))

StoreClear == ClearHistory

StoreNext ==
    \/ StoreSubmit
    \/ StoreEnter
    \/ StorePlanner
    \/ StoreResearchPlan
    \/ StoreGenerate
    \/ StoreReturn
    \/ StoreLoad
    \/ StoreClear

StoreSpec == Init /\ [][StoreNext]_vars

LoadOfPresentId ==
    [][\A k \in 1..uuid_ctr :
        (/\ session'.loads = session.loads + 1
         /\ session'.selected_run_id = Uuid(k)
         /\ session'.load_outcome = "loaded") =>
            /\ RunIds(session'.run_history) = RunIds(session.run_history)
            /\ \E i \in 1..Len(session.run_history) :
                  /\ session.run_history[i].run_id = Uuid(k)
                  /\ session'.run_config = session.run_history[i].config
                  /\ session'.essay_result = session'.run_history[i].essay_result]_vars

\* C16: clearing empties the run history whatever it held; afterwards no run
\* is selected and no stored result is displayed, and the next completed run
\* is recorded as the single entry.
C16_ClearEmpties ==
    /\ [][(session.run_history # <<>> /\ session'.run_history = <<>>) =>
            /\ session'.selected_run_id = NoId
            /\ session'.essay_result = NoneRec]_vars
    /\ [][(session.run_history = <<>> /\ session'.run_history # <<>>) =>
            /\ Len(session'.run_history) = 1
            /\ session'.run_history[1].run_id = run'["app"].root_run_id
            /\ session'.selected_run_id = run'["app"].root_run_id]_vars
    /\ [](session.run_history = <<>> =>
            /\ session.essay_result = NoneRec
            /\ session.selected_run_id = NoId)

C16_Witness ==
    /\ session.submits = HistoryCap + 1
    /\ Len(session.run_history) = 1
    /\ session.recorded = <<run["app"].root_run_id>>
    /\ Returned("app")

----------------------------------------------------------------------------
\* ConfigSpec: one call of an entry point with a configuration dict of any
\* content: length mode with or without a target, counts inside and outside
\* the ranges of the widgets, task present, empty or missing

ConfigInputs ==
    {[BaseConfig EXCEPT !.length_mode = lm, !.target_words = tw, !.max_results = mr,
                        !.max_revisions = n, !.task = t, !.use_research = u] :
        lm \in {"Medium", "Custom word count", "Epic"},
        tw \in {NoWords, 800},
        mr \in {0, 2, 6, 11},
        n \in {0 - 1, 0, 2, 6},
        t \in {T_A, T_EMPTY, NoneText},
        u \in BOOLEAN}

ConfigCall ==
    \E cfg \in ConfigInputs, mode \in {"stream", "batch"} :
        /\ \A s \in Slots : run[s].pc = "idle"
        /\ CallEntry("api1", cfg, mode)

ConfigEnter == Begin("api1")

ConfigPlanner == PlannerStep("api1", [ok |-> TRUE, content |-> T_A])

ConfigResearchPlan ==
    \E sq \in {[ok |-> TRUE, queries |-> <<T_Q>>]} :
        \E outs \in Outcomes(sq, {TavilyFull}) : ResearchPlanStep("api1", sq, outs)

ConfigGenerate == GenerateStep("api1", [ok |-> TRUE, content |-> T_B])

ConfigReflect == ReflectStep("api1", [ok |-> TRUE, content |-> T_A])

ConfigResearchCritique ==
    \E sq \in {[ok |-> TRUE, queries |-> <<T_Q>>]} :
        \E outs \in Outcomes(sq, {TavilyFull}) : ResearchCritiqueStep("api1", sq, outs)

ConfigReturn == Finish("api1", TRUE)

ConfigNext ==
    \/ ConfigCall
    \/ ConfigEnter
    \/ ConfigPlanner
    \/ ConfigResearchPlan
    \/ ConfigGenerate
    \/ ConfigReflect
    \/ ConfigResearchCritique
    \/ ConfigReturn

ConfigSpec == Init /\ [][ConfigNext]_vars

\* the configuration passed EssayRunConfig(**cfg_dict) of the entry point
Constructed(r) == run[r].pc \notin {"idle", "created"} /\ run[r].error # "ValidationError"

\* C17: a configuration with length mode "Custom word count" and no target
\* word count is rejected when it is constructed, so that no node runs; every
\* configuration that passes construction has a target word count iff its
\* length mode is Custom.
C17_CustomNeedsTarget ==
    \A r \in Slots :
        /\ Constructed(r) =>
              (run[r].cfg_dict.target_words # NoWords
                  <=> run[r].cfg_dict.length_mode = "Custom word count")
        /\ (/\ run[r].pc # "idle"
            /\ run[r].cfg_dict.length_mode = "Custom word count"
            /\ run[r].cfg_dict.target_words = NoWords) => run[r].executed = <<>>

\* C18: every run an entry point begins executing has max_results in 1..5,
\* max_revisions in 0..5 and a non-empty task; a configuration outside these
\* bounds is rejected before the planner runs.
C18_RangesChecked ==
    \A r \in Slots :
        run[r].pc \in Nodes \cup {"END", "returned"} \/ run[r].executed # <<>> =>
            /\ run[r].cfg_dict.max_results \in 1..5
            /\ run[r].cfg_dict.max_revisions \in 0..5
            /\ run[r].cfg_dict.task # NoneText
            /\ run[r].cfg_dict.task # <<>>

\* What does hold: the constructor rejects a task that is missing and a length
\* mode outside the four literals, and then no node runs.
ConstructorRejects ==
    \A r \in Slots :
        (run[r].pc \notin {"idle", "created"}
            /\ (run[r].cfg_dict.task = NoneText
                    \/ run[r].cfg_dict.length_mode \notin LengthModes)) =>
            /\ run[r].error = "ValidationError"
            /\ run[r].executed = <<>>

----------------------------------------------------------------------------
\* ExportSpec: a session whose drafts come with surrounding blanks and CRLF line
\* ends, with exports that succeed or fail, and "Load run" on a stored record

T_CRLF == <<"\r", "\n", "a", "\r", "\n", "b", "\r", "\n">>

ExportDrafts == {T_WS, T_A, T_A_PAD, T_CRLF}

ExportConfigs ==
    {[BaseConfig EXCEPT !.max_revisions = n, !.use_research = FALSE] : n \in {0, 2}}

ExportSubmit ==
    /\ session.submits < MaxRuns
    /\ \E raw \in ExportConfigs : Submit(raw)

ExportEnter == Begin("app")

ExportPlanner == PlannerStep("app", [ok |-> TRUE, content |-> T_A])

ExportResearchPlan ==
    ResearchPlanStep("app", [ok |-> TRUE, queries |-> <<>>], <<>>)

ExportGenerate ==
    \E t \in ExportDrafts : GenerateStep("app", [ok |-> TRUE, content |-> t])

ExportReflect == ReflectStep("app", [ok |-> TRUE, content |-> T_B])

ExportResearchCritique ==
    ResearchCritiqueStep("app", [ok |-> TRUE, queries |-> <<>>], <<>>)

ExportReturn == \E export_ok \in BOOLEAN : Finish("app", export_ok)

ExportLoad ==
    /\ session.loads < MaxLoads
    /\ \E i \in 1..MaxRuns : LoadRun(i)

ExportNext ==
    \/ ExportSubmit
    \/ ExportEnter
    \/ ExportPlanner
    \/ ExportResearchPlan
    \/ ExportGenerate
    \/ ExportReflect
    \/ ExportResearchCritique
    \/ ExportReturn
    \/ ExportLoad

ExportSpec == Init /\ [][ExportNext]_vars

\* the result dicts the session holds: the displayed one and those of the history
StoredResults ==
    (IF session.essay_result = NoneRec THEN {} ELSE {session.essay_result})
        \cup {session.run_history[i].essay_result : i \in 1..Len(session.run_history)}

\* C20: in every stored or exported run result the final essay text equals the
\* last entry of that result's draft list, or the empty text when the draft
\* list is empty. The exported files are written from that text: essay.md and
\* essay.txt hold it normalized (CRLF to LF, surrounding whitespace stripped),
\* and the bundle's final.md is the bundle's last draft file, or the
\* placeholder of an empty essay when the result has no draft.
C20_FinalIsLastDraft ==
    \A er \in StoredResults :
        /\ er.final = IF er.drafts = <<>> THEN <<>> ELSE er.drafts[Len(er.drafts)]
        /\ Has(er, "exports") =>
              /\ er.exports.md = Strip(ReplaceCRLF(er.final))
              /\ er.exports.txt = er.exports.md
        /\ Has(er, "bundle_zip") =>
              /\ Len(er.bundle_zip.drafts_md) = Len(er.drafts)
              /\ er.bundle_zip.final_md =
                    IF er.drafts = <<>> THEN NoFinalPlaceholder
                    ELSE Strip(ReplaceCRLF(er.final))
              /\ er.drafts # <<>> =>
                    er.bundle_zip.final_md = Last(er.bundle_zip.drafts_md, <<>>)

C20_Witness ==
    \E er \in StoredResults :
        /\ Len(er.drafts) = 2
        /\ er.drafts[1] # er.drafts[2]
        /\ er.final = T_CRLF
        /\ Has(er, "exports")
        /\ Has(er, "bundle_zip")
        /\ er.bundle_zip.final_md = <<"a", "\n", "b">>
        /\ Len(session.run_history) = MaxRuns

----------------------------------------------------------------------------
\* The node sequence of a run

\* the counter written by the i-th executed node, a generate
CounterAfter(r, i) == run[r].snapshots[i].update.revision_number

\* the only successor the graph allows after the i-th executed node
Successor(r, i) ==
    LET n == run[r].executed[i] IN
    CASE n = "planner" -> "research_plan"
      [] n = "research_plan" -> "generate"
      [] n = "generate" ->
            IF CounterAfter(r, i) > MaxRevOf(r) THEN "END" ELSE "reflect"
      [] n = "reflect" -> "research_critique"
      [] n = "research_critique" -> "generate"

\* C21: the node sequence of every run follows only the fixed transitions:
\* planner once and first, research_plan once directly after it, then generate;
\* after a generate the run ends when revision_number > max_revisions and goes
\* to reflect otherwise; reflect is followed by research_critique, which is
\* followed by generate; reflect executes only after a generate that left
\* revision_number <= max_revisions.
C21_FixedTransitions ==
    \A r \in Slots :
        LET ex == run[r].executed IN
        /\ Len(run[r].snapshots) = Len(ex)
        /\ \A i \in 1..Len(ex) :
              /\ run[r].snapshots[i].node = ex[i]
              /\ ex[i] = "planner" <=> i = 1
              /\ ex[i] = "research_plan" <=> i = 2
              /\ i = 3 => ex[i] = "generate"
              /\ i < Len(ex) => ex[i + 1] = Successor(r, i)
              /\ (ex[i] = "reflect") =>
                    /\ ex[i - 1] = "generate"
                    /\ CounterAfter(r, i - 1) <= MaxRevOf(r)
        /\ run[r].pc \in Nodes =>
              IF ex = <<>> THEN run[r].pc = "planner"
              ELSE run[r].pc = Successor(r, Len(ex))
        /\ run[r].pc \in {"END", "returned"} =>
              /\ ex # <<>>
              /\ Successor(r, Len(ex)) = "END"

C21_Witness ==
    /\ Returned("api1")
    /\ MaxRevOf("api1") = 3
    /\ run["api1"].executed =
          <<"planner", "research_plan", "generate",
            "reflect", "research_critique", "generate",
            "reflect", "research_critique", "generate">>

----------------------------------------------------------------------------
\* The revision counter

\* the run of slot r holds a graph state
HasState(r) == run[r].pc \in Nodes \cup {"END", "returned", "failed", "abandoned"}
                  /\ run[r].state # NoneRec

\* generate executions among the first i executed nodes
GeneratesUpTo(r, i) ==
    Cardinality({j \in 1..i : run[r].executed[j] = "generate"})

\* slot r is in the same run before and after the step
SameRun(r) ==
    /\ HasState(r)
    /\ run'[r].state # NoneRec
    /\ run'[r].root_run_id = run[r].root_run_id
    /\ run'[r].pc # "idle" /\ run'[r].pc # "created"

\* C22: the revision counter starts at 1, is incremented by exactly 1 by each
\* generate execution and is changed by no other node; after the k-th generate
\* of a run it equals k+1, and it never decreases.
C22_CounterCountsGenerates ==
    /\ [](\A r \in Slots : HasState(r) =>
            /\ run[r].state.revision_number
                    = 1 + GeneratesUpTo(r, Len(run[r].executed))
            /\ \A i \in 1..Len(run[r].snapshots) :
                  IF run[r].snapshots[i].node = "generate"
                  THEN run[r].snapshots[i].update.revision_number
                            = 1 + GeneratesUpTo(r, i)
                  ELSE ~Has(run[r].snapshots[i].update, "revision_number"))
    /\ [][\A r \in Slots : SameRun(r) =>
            /\ run'[r].state.revision_number >= run[r].state.revision_number
            /\ run'[r].state.revision_number # run[r].state.revision_number =>
                  /\ run[r].pc = "generate"
                  /\ run'[r].state.revision_number
                        = run[r].state.revision_number + 1]_vars

C22_Witness ==
    /\ run["api1"].pc = "END"
    /\ GeneratesUpTo("api1", Len(run["api1"].executed)) = 3
    /\ run["api1"].state.revision_number = 4
    /\ run["api1"].executed[Len(run["api1"].executed)] = "generate"

----------------------------------------------------------------------------
\* The notes of a run

ResearchNodes == {"research_plan", "research_critique"}

\* the step executed a node of slot r's run
Executed(r) ==
    /\ SameRun(r)
    /\ Len(run'[r].executed) = Len(run[r].executed) + 1

\* the node the step executed
NodeDone(r) == run'[r].executed[Len(run'[r].executed)]

\* the notes in the graph state of slot r
NotesOf(rr) == Get(rr.state, "content", <<>>)

\* C23: the notes sequence is append-only within a run: a research node leaves
\* it equal to the previous sequence followed by the notes returned for each
\* query, in query order, nothing removed, reordered or deduplicated; the
\* notes of any content update are a prefix of those of every later content
\* update of the run.
C23_NotesAppendOnly ==
    /\ [](\A r \in Slots :
            \A i \in 1..Len(run[r].snapshots), j \in 1..Len(run[r].snapshots) :
                (/\ i < j
                 /\ Has(run[r].snapshots[i].update, "content")
                 /\ Has(run[r].snapshots[j].update, "content"))
                => IsPrefix(run[r].snapshots[i].update.content,
                            run[r].snapshots[j].update.content))
    /\ [][\A r \in Slots : Executed(r) =>
            IF NodeDone(r) \in ResearchNodes
            THEN /\ Len(run'[r].request.returned) = Len(run'[r].request.queries)
                 /\ NotesOf(run'[r]) =
                        NotesOf(run[r]) \o Concat(run'[r].request.returned)
                 /\ run'[r].snapshots[Len(run'[r].snapshots)].update
                        = [content |-> NotesOf(run'[r])]
            ELSE NotesOf(run'[r]) = NotesOf(run[r])]_vars

C23_Witness ==
    LET rr == run["api1"] IN
    /\ rr.pc = "generate"
    /\ rr.executed # <<>>
    /\ rr.executed[Len(rr.executed)] = "research_critique"
    /\ rr.request.queries = <<T_WS, T_Q>>
    /\ Len(rr.request.returned[2]) = 2
    /\ Len(NotesOf(rr)) = 4
    /\ NotesOf(rr)[1] = NotesOf(rr)[3]

----------------------------------------------------------------------------
\* QuerySpec: runs whose structured-output answers hold any number of queries;
\* the Queries schema is a plain list of strings and the prompt's "up to 3" is
\* an instruction to the provider only

LongQueryList == <<T_Q, T_A, T_B, T_Q>>

QueryAnswers == {<<>>, <<T_Q>>, <<T_A, T_WS, T_Q>>, LongQueryList}

QueryConfigs == {[BaseConfig EXCEPT !.max_revisions = n] : n \in {0, 2}}

QueryCall ==
    \E cfg \in QueryConfigs, mode \in {"stream", "batch"} :
        /\ \A s \in Slots : run[s].pc = "idle"
        /\ CallEntry("api1", cfg, mode)

QueryEnter == Begin("api1")

QueryPlanner == PlannerStep("api1", [ok |-> TRUE, content |-> T_A])

QueryResearchPlan ==
    \E sq \in Structured(QueryAnswers) :
        \E outs \in Outcomes(sq, {TavilyFull, TavilyEmpty}) :
            ResearchPlanStep("api1", sq, outs)

QueryGenerate == GenerateStep("api1", [ok |-> TRUE, content |-> T_A])

QueryReflect == \E resp \in LLM({T_WS, T_B}) : ReflectStep("api1", resp)

QueryResearchCritique ==
    \E sq \in Structured(QueryAnswers) :
        \E outs \in Outcomes(sq, {TavilyFull, TavilyEmpty}) :
            ResearchCritiqueStep("api1", sq, outs)

QueryReturn == Finish("api1", TRUE)

QueryNext ==
    \/ QueryCall
    \/ QueryEnter
    \/ QueryPlanner
    \/ QueryResearchPlan
    \/ QueryGenerate
    \/ QueryReflect
    \/ QueryResearchCritique
    \/ QueryReturn

QuerySpec == Init /\ [][QueryNext]_vars

\* C24: the query set used by a research node holds 0 to 3 queries: each
\* execution of research_plan or research_critique issues at most 3
\* research-adapter calls, whatever list the structured response contains.
C24_AtMostThreeQueries ==
    \A r \in Slots :
        (run[r].request # NoneRec /\ run[r].request.node \in ResearchNodes) =>
            /\ Len(run[r].request.queries) <= MaxQueries
            /\ Len(run[r].request.returned) <= MaxQueries

\* the part of C24 that holds: a research node makes one adapter call per query
\* of the structured response, in order, and none without a response
OneCallPerQuery ==
    \A r \in Slots :
        (run[r].request # NoneRec /\ run[r].request.node \in ResearchNodes) =>
            /\ Len(run[r].request.returned) <= Len(run[r].request.queries)
            /\ run[r].pc # "failed" =>
                    Len(run[r].request.returned) = Len(run[r].request.queries)
            /\ run[r].request.asked = <<>> => run[r].request.queries = <<>>

----------------------------------------------------------------------------
\* Failures of a node

\* the step is a node of slot r's run raising
NodeFails(r) ==
    /\ run[r].pc \in Nodes
    /\ run'[r].pc = "failed"

\* C25: the state machine never retries a node and never swallows a node
\* failure: a failing completion, structured-query or research-adapter call
\* in any node propagates to the caller, no later node executes, and the
\* failed node is not executed a second time in that run.
C25_FailurePropagates ==
    /\ [](\A r \in Slots :
            /\ run[r].error # "none" <=> run[r].pc = "failed"
            /\ run[r].pc = "failed" => run[r].result = NoneRec)
    /\ [][\A r \in Slots :
            /\ NodeFails(r) =>
                  /\ run'[r].error \in {"ProviderCallError", "ResearchError", "ValueError"}
                  /\ run'[r].executed = run[r].executed
                  /\ run'[r].snapshots = run[r].snapshots
                  /\ run'[r].events = run[r].events
                  /\ run'[r].state = run[r].state
                  /\ run'[r].request.node = run[r].pc
                  /\ run'[r].calls.llm + run'[r].calls.structured
                        = run[r].calls.llm + run[r].calls.structured + 1
            /\ run[r].pc = "failed" =>
                  \/ run'[r] = run[r]
                  \/ run'[r].pc = "created" /\ run'[r].executed = <<>>]_vars

C25_Witness ==
    LET rr == run["api1"] IN
    /\ rr.pc = "failed"
    /\ rr.error = "ResearchError"
    /\ rr.request.node = "research_critique"
    /\ rr.executed = <<"planner", "research_plan", "generate", "reflect">>
    /\ rr.calls.search = 2

----------------------------------------------------------------------------
\* research_critique

\* the step is an execution of research_critique in slot r, completed or failed
CritiqueResearchRuns(r) ==
    /\ run[r].pc = "research_critique"
    /\ run'[r].pc \in {"generate", "failed"}

\* the critique written by the node executed last, a reflect
ReflectedCritique(r) == run[r].snapshots[Len(run[r].snapshots)].update.critique

\* C26: research_critique passes the state through unchanged and issues no
\* structured-query request and no search call when research is disabled or
\* the current critique is blank; otherwise it derives its queries from the
\* critique produced by the immediately preceding reflect.
C26_CritiqueResearchGuard ==
    [][\A r \in Slots : CritiqueResearchRuns(r) =>
        /\ run[r].executed[Len(run[r].executed)] = "reflect"
        /\ run[r].state.critique = ReflectedCritique(r)
        /\ IF ~UsesResearch(r) \/ Strip(ReflectedCritique(r)) = <<>>
           THEN /\ run'[r].pc = "generate"
                /\ run'[r].state = run[r].state
                /\ run'[r].calls = run[r].calls
                /\ run'[r].request.asked = <<>>
                /\ search_cache' = search_cache
           ELSE /\ run'[r].request.asked = <<ReflectedCritique(r)>>
                /\ run'[r].calls.structured = run[r].calls.structured + 1
                /\ run'[r].calls.search
                        = run[r].calls.search + Len(run'[r].request.returned)]_vars

C26_Witness ==
    LET rr == run["api1"] IN
    /\ rr.pc = "generate"
    /\ rr.cfg_dict.use_research
    /\ Len(rr.executed) = 5
    /\ rr.executed[5] = "research_critique"
    /\ rr.state.critique = T_WS
    /\ rr.request.asked = <<>>
    /\ rr.calls.structured = 1
    /\ Len(rr.state.content) = 2

\* research_critique asking for queries about a non-blank critique
C26_WitnessAsked ==
    LET rr == run["api1"] IN
    /\ rr.pc = "generate"
    /\ Len(rr.executed) = 8
    /\ rr.executed[8] = "research_critique"
    /\ rr.request.asked = <<T_B>>
    /\ rr.snapshots[4].update.critique = T_A

----------------------------------------------------------------------------
\* The request of generate

\* the latest request of slot r's run is one of generate
Generating(r) == run[r].request # NoneRec /\ run[r].request.node = "generate"

\* positions of the reflect chunks of the run
ReflectChunks(r) ==
    {i \in 1..Len(run[r].snapshots) : run[r].snapshots[i].node = "reflect"}

\* the critique section a generate of the run owes: none before the first
\* reflect (and none for an empty critique text), else the critique of the
\* most recent reflect
OwedCritique(r) ==
    IF ReflectChunks(r) = {} THEN <<>>
    ELSE LET last == CHOOSE i \in ReflectChunks(r) :
                        \A j \in ReflectChunks(r) : j <= i
             critique == run[r].snapshots[last].update.critique
         IN  IF critique = <<>> THEN <<>> ELSE <<critique>>

\* the notes appended by the research nodes of the run so far, joined
OwedNotes(r) ==
    LET idx == {i \in 1..Len(run[r].snapshots) :
                    run[r].snapshots[i].node \in ResearchNodes}
    IN  IF idx = {} THEN <<>>
        ELSE JoinNotes(run[r].snapshots[CHOOSE i \in idx : \A j \in idx : j <= i]
                            .update.content)

\* the request of the latest generate is built from the plan of this run's
\* planner, the notes of this run and the owed critique section
RequestFromOwnCycle(r) ==
    /\ run[r].request.plan = run[r].snapshots[1].update.plan
    /\ run[r].request.content_text = OwedNotes(r)
    /\ run[r].request.critique_section = OwedCritique(r)

\* C27: each generate builds its request from the plan, all notes accumulated
\* so far and the current critique: the first generate of a run carries no
\* critique section, every later generate carries the critique of the most
\* recent reflect, never an older one.
C27_GenerateRequest ==
    \A r \in Slots : Generating(r) => RequestFromOwnCycle(r)

\* the part of C27 that holds: a generate of a run on a thread no earlier run
\* has used builds its request that way
FreshThreadGenerateRequest ==
    \A r \in Slots : (Generating(r) /\ ~run[r].resumed) => RequestFromOwnCycle(r)

\* a first generate whose request carries the critique of an earlier run
StaleCritiqueSent ==
    \E r \in Slots :
        /\ Generating(r)
        /\ run[r].resumed
        /\ ReflectChunks(r) = {}
        /\ run[r].request.critique_section # <<>>

----------------------------------------------------------------------------
\* CacheSpec: direct calls of run_tavily_search against a deterministic
\* provider, with cache entries expiring (ttl) between calls

T_N == <<"n">>

CacheQueries == {T_WS, T_Q, <<" ", "q">>, T_A, T_B, T_N}

CacheMaxResults == {MinResults - 1, MinResults, MinResults + 1}

\* the provider as a function of the request it receives
Provider(q, max_results) ==
    IF "TAVILY_API_KEY" \notin secrets THEN [kind |-> "missing_secret"]
    ELSE IF q = T_Q /\ max_results = MinResults THEN TavilyBlankTitles
    ELSE IF q = T_Q THEN TavilyFull
    ELSE IF q = T_A THEN TavilyMalformed
    ELSE IF q = T_B THEN TavilyDown
    ELSE IF q = T_N THEN TavilyNotDict
    ELSE TavilyEmpty

CacheSearch ==
    /\ search_call.n < MaxSearchCalls + 1
    /\ \E query \in CacheQueries, max_results \in CacheMaxResults :
          SearchCall(query, max_results, Provider(Strip(OrEmpty(query)), max_results))

\* st.cache_data(ttl=60 * 60): an entry older than the ttl is dropped; the
\* record of the latest call notes that time has passed since
CacheExpire ==
    /\ \E key \in DOMAIN search_cache :
          search_cache' = [k \in DOMAIN search_cache \ {key} |-> search_cache[k]]
    /\ search_call' = Put(search_call, "expired", TRUE)
    /\ UNCHANGED <<run, checkpoints, graph_cache, secrets, session, uuid_ctr>>

\* an entry has expired since the latest call
Expired == Get(search_call, "expired", FALSE)

CacheNext ==
    \/ CacheSearch
    \/ CacheExpire

CacheSpec == SearchInit /\ [][CacheNext]_vars

\* the adapter without the cache: every call goes to the provider
Uncached(query, max_results) ==
    RunTavilySearch(query, max_results,
                    Provider(Strip(OrEmpty(query)), max_results), <<>>)

\* the key of the latest call
CallKey(c) == <<Strip(OrEmpty(c.query)), c.max_results>>

\* C28: the search cache is a pure optimization: for a deterministic provider
\* and any sequence of search calls the adapter with the cache returns for
\* every call the notes the adapter without it returns, and a repeated call
\* with the identical (query, maxResults) pair before the entry expires makes
\* no second provider call.
C28_CachePureOptimization ==
    /\ [](Called =>
            /\ search_call.notes = Uncached(search_call.query,
                                            search_call.max_results).notes
            /\ search_call.raised = Uncached(search_call.query,
                                             search_call.max_results).raised
            /\ search_call.provider_calls
                    <= Uncached(search_call.query,
                                search_call.max_results).provider_calls)
    /\ [][(/\ Called
           /\ search_call'.n = search_call.n + 1
           /\ CallKey(search_call') = CallKey(search_call)
           /\ search_call.raised = "none"
           /\ ~BlankQuery
           /\ ~Expired)
          => /\ search_call'.provider_calls = 0
             /\ search_call'.notes = search_call.notes]_vars

C28_Witness ==
    /\ search_call.n = 3
    /\ search_call.cached
    /\ search_call.provider_calls = 0
    /\ search_call.query = <<" ", "q">>
    /\ search_call.max_results = MinResults
    /\ Len(search_call.notes) = 2
    /\ DOMAIN search_cache = {<<T_Q, MinResults>>, <<T_Q, MinResults + 1>>}

----------------------------------------------------------------------------
\* The configuration shown with a stored result

\* the configuration recorded for the run that produced the result
ProducedWith(essay_result, config) ==
    \E i \in 1..Len(session.run_history) :
        /\ session.run_history[i].essay_result.trace_id = essay_result.trace_id
        /\ session.run_history[i].config = config

\* a stored result is in the session and no run is in progress
ResultShown == Finished("app") /\ session.essay_result # NoneRec

\* C29: whenever a stored result is displayed in the session, the session's
\* run_config is the configuration of the run that produced that result, after
\* any sequence of successful runs, failed runs, loads and clears; a run that
\* fails leaves the displayed result and its configuration as they were.
C29_ConfigOfDisplayedResult ==
    ResultShown => ProducedWith(session.essay_result, session.run_config)

\* the part of C29 that holds: the configuration belongs to the result unless
\* the latest run of the session failed after its configuration was stored
ConfigOfResultUnlessFailed ==
    (ResultShown /\ run["app"].pc # "failed") =>
        ProducedWith(session.essay_result, session.run_config)

\* a failed run keeps the stored result of the run before it
FailedRunKeepsResult ==
    [][(AppRunning /\ run'["app"].pc = "failed") =>
            /\ session'.essay_result = session.essay_result
            /\ session'.run_config = session.run_config]_vars

\* a result of an earlier run shown with the configuration of a failed run
ForeignConfigShown ==
    /\ ResultShown
    /\ run["app"].pc = "failed"
    /\ run["app"].executed # <<>>
    /\ session.run_config = run["app"].cfg_dict
    /\ ~ProducedWith(session.essay_result, session.run_config)

----------------------------------------------------------------------------
\* The records of the history

\* record i of the history before the step is record j of the history after it
SameRecord(i, j) ==
    /\ i \in 1..Len(session.run_history)
    /\ j \in 1..Len(session'.run_history)
    /\ session.run_history[i].run_id = session'.run_history[j].run_id

\* C30: a history record is an immutable snapshot: once a run has been
\* recorded, the contents of its stored result (its set of fields and their
\* values) are never changed by any later operation (loading it, displaying it,
\* building its download bundle, recording further runs) until the record is
\* evicted or the history is cleared.
C30_RecordsImmutable ==
    [][\A i \in 1..HistoryCap, j \in 1..HistoryCap :
        SameRecord(i, j) =>
            session'.run_history[j].essay_result = session.run_history[i].essay_result]_vars

\* the part of C30 that holds: the fields a record was stored with keep their
\* values, the only field ever added is bundle_zip, and it is added only by
\* "Load run" of that record
RecordedFieldsKept ==
    [][\A i \in 1..HistoryCap, j \in 1..HistoryCap :
        SameRecord(i, j) =>
            LET old == session.run_history[i]
                new == session'.run_history[j]
            IN  /\ new.config = old.config
                /\ new.task = old.task
                /\ \A k \in DOMAIN old.essay_result :
                        /\ k \in DOMAIN new.essay_result
                        /\ new.essay_result[k] = old.essay_result[k]
                /\ DOMAIN new.essay_result \subseteq
                        DOMAIN old.essay_result \cup {"bundle_zip"}
                /\ new.essay_result # old.essay_result =>
                        /\ session'.loads = session.loads + 1
                        /\ session'.essay_alias = old.run_id]_vars

\* a record of the history that holds a download bundle
RecordHoldsBundle ==
    \E i \in 1..Len(session.run_history) :
        /\ Has(session.run_history[i].essay_result, "bundle_zip")
        /\ session.essay_alias = session.run_history[i].run_id

----------------------------------------------------------------------------
\* The revision number of the returned final state

\* the counter the graph state of slot r holds
CounterAtEnd(r) == run[r].state.revision_number

\* C31: the final_state returned by a completed streamed run reports as
\* revision_number the value the revision counter held at termination (one
\* more than the number of generate executions), for every max_revisions, and
\* therefore the revision_number of the batched run's final_state.
C31_FinalRevisionNumber ==
    \A r \in Slots :
        Returned(r) =>
            /\ run[r].result.final_state.revision_number = CounterAtEnd(r)
            /\ CounterAtEnd(r) = 1 + Executions(r, "generate")

\* the part of C31 that holds: the batched run's final_state carries the
\* counter of the last generate, and the streamed run's final_state agrees
\* with it for max_revisions >= 1
FinalRevisionNumberFromOne ==
    \A r \in Slots :
        (Returned(r) /\ (run[r].mode = "batch" \/ MaxRevOf(r) >= 1)) =>
            /\ run[r].result.final_state.revision_number = CounterAtEnd(r)
            /\ CounterAtEnd(r) = 1 + Executions(r, "generate")

\* a streamed run with max_revisions = 0 reporting 1 after one generate
StreamReportsOne ==
    \E r \in Slots :
        /\ Returned(r)
        /\ run[r].mode = "stream"
        /\ MaxRevOf(r) = 0
        /\ Executions(r, "generate") = 1
        /\ CounterAtEnd(r) = 2
        /\ run[r].result.final_state.revision_number = 1

----------------------------------------------------------------------------
\* The fields a node writes

\* the fields of the graph state each node may change
OwnFields(node) ==
    CASE node = "planner" -> {"plan"}
      [] node = "generate" -> {"draft", "revision_number"}
      [] node = "reflect" -> {"critique"}
      [] node = "research_plan" -> {"content"}
      [] node = "research_critique" -> {"content"}

\* state and state' agree on every field outside keys
AgreeOutside(old, new, keys) ==
    \A k \in (DOMAIN old \cup DOMAIN new) \ keys :
        /\ k \in DOMAIN old
        /\ k \in DOMAIN new
        /\ new[k] = old[k]

\* C32: each node's update changes only its own fields: planner only plan,
\* generate only draft and revision_number, reflect only critique, the two
\* research nodes only the notes; task, max_revisions and config are never
\* changed after the run starts, and plan is never changed after the planner
\* has run.
C32_NodesWriteOwnFields ==
    /\ [](\A r \in Slots : HasState(r) =>
            /\ run[r].state.task = run[r].cfg_dict.task
            /\ run[r].state.max_revisions = run[r].cfg_dict.max_revisions
            /\ run[r].state.config = ModelDump(run[r].cfg_dict)
            /\ run[r].executed # <<>> =>
                    run[r].state.plan = run[r].snapshots[1].update.plan)
    /\ [][\A r \in Slots :
            /\ Executed(r) =>
                  /\ DOMAIN run'[r].snapshots[Len(run'[r].snapshots)].update
                        = OwnFields(NodeDone(r))
                  /\ AgreeOutside(run[r].state, run'[r].state, OwnFields(NodeDone(r)))
            /\ (SameRun(r) /\ ~Executed(r)) => run'[r].state = run[r].state]_vars

C32_Witness ==
    LET rr == run["api1"] IN
    /\ rr.pc = "END"
    /\ Len(rr.executed) = 9
    /\ rr.state.plan = T_A
    /\ rr.state.draft = T_B
    /\ rr.state.critique = T_A
    /\ rr.snapshots[3].update.draft = T_A
    /\ rr.snapshots[4].update.critique = T_B
    /\ Len(rr.state.content) = 2

----------------------------------------------------------------------------
\* SelectSpec: the session of HistorySpec with runs that can fail

\* the provider fails once the cap has filled the history
SelectPlannerFails ==
    /\ Len(session.recorded) >= HistoryCap
    /\ PlannerStep("app", [ok |-> FALSE, content |-> <<>>])

SelectNext ==
    \/ HistoryNext
    \/ SelectPlannerFails

SelectSpec == Init /\ [][SelectNext]_vars

\* C33: in every state reachable by successful runs, failed runs, loads and
\* clears, the selected run identifier is either unset or the identifier of a
\* record currently in the run history, including after the 15-record cap
\* evicts records.
C33_SelectionInHistory ==
    \/ session.selected_run_id = NoId
    \/ \E i \in 1..Len(session.run_history) :
            session.run_history[i].run_id = session.selected_run_id

C33_Witness ==
    /\ Len(session.recorded) > HistoryCap
    /\ Len(session.run_history) = HistoryCap
    /\ run["app"].pc = "failed"
    /\ session.loads > 0
    /\ session.selected_run_id = session.run_history[HistoryCap].run_id

----------------------------------------------------------------------------
\* the drafts and critiques a slot holds: the lists a streamed run accumulates
\* and the lists of the result a finished run returned
ListsOf(r) ==
    (IF run[r].mode = "stream" /\ run[r].pc \notin {"idle", "returned"}
     THEN {[drafts |-> run[r].drafts, critiques |-> run[r].critiques]} ELSE {})
    \cup
    (IF Returned(r)
     THEN {[drafts |-> run[r].result.drafts, critiques |-> run[r].result.critiques]}
     ELSE {})

\* C34: the draft list and the critique list of a result never contain a blank
\* entry: a blank draft or critique returned by the provider is not recorded, so
\* the number of recorded drafts never exceeds the number of generate executions
\* and the number of recorded critiques never exceeds the number of reflect
\* executions.
C34_NoBlankEntries ==
    \A r \in Slots :
        \A l \in ListsOf(r) :
            /\ NoneBlank(l.drafts)
            /\ NoneBlank(l.critiques)
            /\ Len(l.drafts) <= Executions(r, "generate")
            /\ Len(l.critiques) <= Executions(r, "reflect")

C34_Witness ==
    \E r \in Slots :
        /\ Returned(r)
        /\ ~NoneBlank(Emitted(r, "draft"))
        /\ ~NoneBlank(Emitted(r, "critique"))
        /\ run[r].result.drafts # <<>>
        /\ run[r].result.critiques # <<>>
        /\ Len(run[r].result.drafts) < Executions(r, "generate")
        /\ Len(run[r].result.critiques) < Executions(r, "reflect")

====
